---- MODULE Spec2Model ----
(***************************************************************************)
(* Verification model of the snappi front end (hexylab/snappi).            *)
(*                                                                         *)
(*   springMath.ts    Spring, computeViewportAt, makeViewport              *)
(*   zoomSegments.ts  segmentsToKeyframes, keyframesToSegments             *)
(*   Preview.tsx      export state of the preview page, segment editing    *)
(*   VideoPlayer.tsx  frame position of the player                         *)
(*   App.tsx          recording state, pages, recorder commands            *)
(*   ZoomTrack.tsx    clicks, drags and the context menu of the zoom track *)
(*   SegmentEditor    zoom slider and navigation of the selected segment   *)
(*                                                                         *)
(* Numbers.  The TypeScript code computes in IEEE doubles; the model uses  *)
(* fixed point.  Pixel coordinates, zoom factors and velocities (px/s) are *)
(* integers scaled by FP (1.0 is FP).  Times are integer milliseconds.     *)
(* Half-lives are integer microseconds, so that EPSILON (1e-5 s) and       *)
(* values below it are representable.  Math.exp is computed by range       *)
(* reduction and a cubic Taylor polynomial and underflows to 0 like the    *)
(* double does for large arguments.                                        *)
(***************************************************************************)
EXTENDS Integers, Sequences, FiniteSets, TLC

\* fixed-point scale: 1.0 in pixels / zoom factor
FP == 16 * 16

Max(a, b) == IF a >= b THEN a ELSE b

Min(a, b) == IF a <= b THEN a ELSE b

\* null / undefined where an object is expected
Null == [null |-> TRUE]

(***************************************************************************)
(* springMath.ts: constants                                                *)
(***************************************************************************)
\* LN_2 = 0.693147180559945, fixed point
LN_2 == (693147 * FP) \div 1000000

\* EPSILON = 1e-5 seconds, in microseconds
EPSILON == 10

\* default half-lives of computeViewportAt, microseconds (0.22 s, 0.25 s)
DefaultPanHL == 220000

DefaultZoomInHL == 250000

\* zoom-out half-life of the fallback branch (0.35 s)
DefaultZoomOutHL == 350000

(***************************************************************************)
(* Math.exp(-q) for q >= 0, both in fixed point.                           *)
(* exp(-q) = 2^-k * exp(-r), k = floor(q / ln 2), r = q - k ln 2.          *)
(***************************************************************************)
RECURSIVE Halve(_, _)
Halve(x, k) == IF k = 0 \/ x = 0 THEN x ELSE Halve(x \div 2, k - 1)

ExpNeg(q) ==
  LET k == q \div LN_2
      r == q - k * LN_2
      poly == FP - r + (r * r) \div (2 * FP) - (r * r * r) \div (6 * FP * FP)
  IN  Halve(poly, k)

(***************************************************************************)
(* class Spring                                                            *)
(***************************************************************************)
NewSpring(initial) == [position |-> initial, velocity |-> 0, target |-> initial]

\* an invalid half-life replaced by the default zoom half-life, not by EPSILON
ClampHalfLifeToDefault(halfLife) ==
  IF halfLife < EPSILON THEN DefaultZoomInHL ELSE halfLife

\* Math.max(halfLife, EPSILON)
ClampHalfLife(halfLife) == Max(halfLife, EPSILON)

\* Spring.update(halfLife, dt): halfLife in microseconds, dt in milliseconds.
\* Returns the spring after the call.  The code has no throw statement: the
\* call returns normally for every argument.
SpringUpdate(s, halfLife, dtMs) ==
  IF dtMs <= 0 THEN s
  ELSE
    LET hl == ClampHalfLife(halfLife)
        \* yHalf * dt, dimensionless
        yHalfDt == (2 * LN_2 * 1000 * dtMs) \div hl
        eydt == ExpNeg(yHalfDt)
    IN  IF eydt = 0
        THEN \* exp underflowed: eydt * (finite) = 0
             [position |-> s.target, velocity |-> 0, target |-> s.target]
        ELSE
          LET yHalf == (2 * LN_2 * 1000000) \div hl
              j0 == s.position - s.target
              j1 == s.velocity + (j0 * yHalf) \div FP
          IN  [position |-> (eydt * (j0 + (j1 * dtMs) \div 1000)) \div FP + s.target,
               velocity |-> (eydt * (s.velocity
                                     - (((j1 * yHalf) \div FP) * dtMs) \div 1000)) \div FP,
               target   |-> s.target]

\* whether update(halfLife, dt) ends by throwing: its body holds no throw,
\* and "if (dt <= 0) return" ends the call normally
SpringUpdateThrows(s, halfLife, dtMs) == FALSE

(***************************************************************************)
(* makeViewport                                                            *)
(***************************************************************************)
\* makeViewport without the clamp of x and y to the screen
makeViewportUnclamped(spx, spy, spz, sw, sh) ==
  LET zoom == Max(spz.position, FP)
      vpW == (sw * FP) \div zoom
      vpH == (sh * FP) \div zoom
  IN  [x |-> spx.position - vpW \div 2, y |-> spy.position - vpH \div 2,
       width |-> vpW, height |-> vpH, zoom |-> zoom]

makeViewport(spx, spy, spz, sw, sh) ==
  LET zoom == Max(spz.position, FP)
      vpW == (sw * FP) \div zoom
      vpH == (sh * FP) \div zoom
      x == Max(0, Min(sw - vpW, spx.position - vpW \div 2))
      y == Max(0, Min(sh - vpH, spy.position - vpH \div 2))
  IN  [x |-> x, y |-> y, width |-> vpW, height |-> vpH, zoom |-> zoom]

(***************************************************************************)
(* Bounds of the model                                                     *)
(***************************************************************************)
\* longest keyframe list handed to computeViewportAt
MaxKeyframes == 2

\* screen sizes in pixels (width, height)
ScreenSizes == {<<16, 9>>, <<4, 4>>}

\* keyframe times and query times, milliseconds
KeyframeTimes == {0, 400}

QueryTimes == {0, 200, 400, 1000}

\* spring_hint values: absent, or a pair of half-lives (0.10 s, 0.15 s)
SpringHints == {Null, [zoom_half_life |-> 100000, pan_half_life |-> 150000]}

\* where a keyframe points and how far it zooms: corner targets make the
\* clamp of makeViewport act
KeyframeShapes == {[at |-> "topLeft", zoom |-> 2 * FP, transition |-> "SpringIn"],
                   [at |-> "bottomRight", zoom |-> 3 * FP, transition |-> "SpringOut"],
                   [at |-> "centre", zoom |-> FP, transition |-> "Smooth"]}

(***************************************************************************)
(* types.ts: ZoomKeyframe                                                  *)
(***************************************************************************)
ZoomKeyframe(t, shape, hint, sw, sh) ==
  [time_ms     |-> t,
   target_x    |-> CASE shape.at = "topLeft" -> 0
                     [] shape.at = "bottomRight" -> sw
                     [] OTHER -> sw \div 2,
   target_y    |-> CASE shape.at = "topLeft" -> 0
                     [] shape.at = "bottomRight" -> sh
                     [] OTHER -> sh \div 2,
   zoom_level  |-> shape.zoom,
   transition  |-> shape.transition,
   spring_hint |-> hint]

KeyframePool(sw, sh) ==
  {ZoomKeyframe(t, shape, hint, sw, sh) :
     t \in KeyframeTimes, shape \in KeyframeShapes, hint \in SpringHints}

\* a keyframe list is monotonically non-decreasing in time
TimeSorted(kfs) ==
  \A i \in 1..(Len(kfs) - 1) : kfs[i].time_ms <= kfs[i + 1].time_ms

KeyframeLists(sw, sh) ==
  UNION {{kfs \in [1..n -> KeyframePool(sw, sh)] : TimeSorted(kfs)} :
           n \in 0..MaxKeyframes}

(***************************************************************************)
(* State                                                                   *)
(***************************************************************************)
VARIABLES
  \* computeViewportAt: arguments
  keyframes, timeMs, screenWidth, screenHeight,
  \* computeViewportAt: locals
  cx, cy, zoomSpring, panHL, zoomHL, prevMs,
  kfIndex,      \* position of the for-of loop in keyframes
  vpPc,         \* "idle" | "loop" | "done"
  viewport,     \* the returned ViewportRect, Null before the return
  \* computeViewportAt: history of the running call
  applied,      \* indices of the keyframes applied, in order of application
  updates,      \* the update calls made: [dt, panHL, zoomHL, after] each, after
                \* being the index of the keyframe applied last, 0 if none
  \* computeViewportAt: history of the calls
  memo,         \* [timeMs, viewport] of the first call that returned, or Null
  lastTimeMs,   \* timeMs of the call before the current one, -1 if none
  \* a Spring on its own
  spring,       \* [position, velocity, target]
  lastUpdate,   \* the update call that just returned: [halfLife, dt, before], or Null
  threw,        \* whether the last update call threw
  nUpdates,     \* number of update calls made
  \* segmentsToKeyframes on its own
  segments,     \* the ZoomSegment[] argument
  kfsOut,       \* the ZoomKeyframe[] returned, <<>> before the first call
  \* VideoPlayer.tsx
  frameCount,     \* props.frameCount
  durationMs,     \* props.durationMs
  seekToTimeMs,   \* props.seekToTimeMs, Undefined until the page seeks
  playing,        \* signal
  currentFrame,   \* signal
  seeking,        \* signal; the window mousemove listener exists while TRUE
  playbackPos,    \* in 1/PosUnit frames
  lastTimestamp,  \* Undefined or a requestAnimationFrame timestamp
  animationRef,   \* "undefined", or where the callback it names is:
                  \* "next" (waiting for the next frame) or "ran"
  scheduled,      \* number of tick callbacks waiting for the next frame
  now,            \* timestamp of the latest animation frame
  \* App.tsx, Preview.tsx and the export backend
  page,              \* App: the page shown
  mountPc,           \* where Preview's onMount is
  exporting,         \* signal
  exportedPath,      \* signal, NullString or a path
  error,             \* signal, NullString or a message
  recordingInfo,     \* signal, Null or the RecordingInfo
  exportProgress,    \* signal, Null or an ExportProgress
  unlistenProgress,  \* TRUE when the export-progress listener is registered
  unlistenComplete,  \* same for export-complete
  unlistenError,     \* same for export-error
  nextId,            \* zoomSegments.ts: the module's id counter
  jobs,              \* backend: the export jobs started, in order
  channel,           \* messages sent to the page and not handled yet
  \* App.tsx and the recorder backend
  currentRecordingId, \* signal, NullString or a recording id
  recordingState,     \* signal: "Idle" | "Recording" | "Paused"
  elapsed,            \* signal
  timerRef,           \* "undefined", or the interval it names is "live" or "cleared"
  intervals,          \* number of live setInterval timers
  appMountPc,         \* where App's onMount is
  calls,              \* commands invoked whose promise has not been handled yet
  nCalls,             \* number of commands invoked so far
  recorder,           \* backend: the state of the recorder
  recordings,         \* backend: number of recordings made
  importing,          \* onPause calls waiting for import("./lib/commands")
  stopHandled,        \* a stop request has been handled and no start was
                      \* requested since
  \* Preview.tsx and ZoomTrack.tsx: the zoom segment editor
  selectedSegmentId,  \* signal, NoSegment for null
  dragState,          \* signal of ZoomTrack, Null or the edge being dragged
  contextMenu,        \* signal of ZoomTrack, Null or the open menu
  pendingOps,         \* computeActivityCenter calls that have not settled
  sequential,         \* no operation has begun while another was pending
  nEvents             \* number of editor events handled so far

vpVars == <<keyframes, timeMs, screenWidth, screenHeight, cx, cy, zoomSpring,
            panHL, zoomHL, prevMs, kfIndex, vpPc, viewport, applied, updates, memo,
            lastTimeMs>>

springVars == <<spring, lastUpdate, threw, nUpdates>>

segVars == <<segments, kfsOut>>

playerVars == <<frameCount, durationMs, seekToTimeMs, playing, currentFrame, seeking,
                playbackPos, lastTimestamp, animationRef, scheduled, now>>

\* the Preview component and the export backend
previewVars == <<mountPc, exporting, exportedPath, error, recordingInfo,
                 exportProgress, unlistenProgress, unlistenComplete, unlistenError,
                 nextId, jobs, channel>>

exportVars == <<page, currentRecordingId, previewVars>>

appVars == <<recordingState, elapsed, timerRef, intervals, appMountPc, importing, calls,
             nCalls, recorder, recordings, stopHandled>>

editorVars == <<selectedSegmentId, dragState, contextMenu, pendingOps, sequential,
                nEvents>>

vars == <<vpVars, springVars, segVars, playerVars, exportVars, appVars, editorVars>>

exceptViewport == <<springVars, segVars, playerVars, exportVars, appVars, editorVars>>
exceptSpring == <<vpVars, segVars, playerVars, exportVars, appVars, editorVars>>
exceptSegments == <<vpVars, springVars, playerVars, exportVars, appVars, editorVars>>
exceptPlayer == <<vpVars, springVars, segVars, exportVars, appVars, editorVars>>
exceptExport == <<vpVars, springVars, playerVars, kfsOut, appVars, editorVars>>
exceptEditor == <<vpVars, springVars, playerVars, kfsOut, appVars, page,
                  currentRecordingId, mountPc, exporting, exportedPath, error,
                  recordingInfo, exportProgress, unlistenProgress, unlistenComplete,
                  unlistenError, jobs, channel>>
exceptApp == <<vpVars, springVars, playerVars, kfsOut, nextId, channel, editorVars>>

(***************************************************************************)
(* computeViewportAt                                                       *)
(***************************************************************************)
\* const cx = new Spring(screenWidth / 2), and so on: fresh for every call
\* a centre spring kept from the previous call instead of a fresh one
ReusedCx == IF vpPc = "done" THEN cx ELSE NewSpring(screenWidth \div 2)

InitialCx == NewSpring(screenWidth \div 2)

InitialCy == NewSpring(screenHeight \div 2)

\* a zoom spring that starts at 2.0
ZoomedInZoomSpring == NewSpring(2 * FP)

InitialZoomSpring == NewSpring(FP)

\* the three update calls guarded by "if (dt > 0)"
Advance(sp, halfLife, dt) == IF dt > 0 THEN SpringUpdate(sp, halfLife, dt) ELSE sp

LogUpdate(dt) ==
  IF dt > 0
  THEN Append(updates, [dt |-> dt, panHL |-> panHL, zoomHL |-> zoomHL,
                        after |-> IF applied = <<>> THEN 0 ELSE applied[Len(applied)]])
  ELSE updates

\* if (kf.time_ms > timeMs): the loop stops at this keyframe
\* the loop test with >= for >: a keyframe at timeMs itself is not applied
StopsAtOrAfter(kf) == kf.time_ms >= timeMs

StopsAt(kf) == kf.time_ms > timeMs

\* prevMs = kf.time_ms
\* prevMs left where it was after a keyframe
StalePrevMs(kf) == prevMs

NextPrevMs(kf) == kf.time_ms

\* half-lives after applying kf; zoomPos is zoomSpring.position after the advance
NextZoomHL(kf, zoomPos) ==
  IF kf.spring_hint # Null THEN kf.spring_hint.zoom_half_life
  ELSE IF kf.zoom_level > zoomPos THEN DefaultZoomInHL
  ELSE IF kf.zoom_level < zoomPos THEN DefaultZoomOutHL
  ELSE zoomHL

\* panHL = 0.22 whether or not the keyframe has a hint
HintlessPanHL(kf) == DefaultPanHL

NextPanHL(kf) ==
  IF kf.spring_hint # Null THEN kf.spring_hint.pan_half_life ELSE DefaultPanHL

Return(ncx, ncy, nzoom) ==
  LET vp == makeViewport(ncx, ncy, nzoom, screenWidth, screenHeight)
  IN  /\ viewport' = vp
      /\ vpPc' = "done"
      /\ memo' = IF memo = Null THEN [timeMs |-> timeMs, viewport |-> vp] ELSE memo

\* entry: the springs and the loop state are constructed
ComputeViewportAt(t) ==
  /\ vpPc \in {"idle", "done"}
  /\ timeMs' = t
  /\ cx' = InitialCx
  /\ cy' = InitialCy
  /\ zoomSpring' = InitialZoomSpring
  /\ panHL' = DefaultPanHL
  /\ zoomHL' = DefaultZoomInHL
  /\ prevMs' = 0
  /\ kfIndex' = 1
  /\ vpPc' = "loop"
  /\ viewport' = Null
  /\ applied' = <<>>
  /\ updates' = <<>>
  /\ lastTimeMs' = IF vpPc = "done" THEN timeMs ELSE lastTimeMs
  /\ UNCHANGED <<keyframes, screenWidth, screenHeight, memo>>

\* loop body, keyframe after timeMs: advance to timeMs and return
LoopReturn ==
  /\ vpPc = "loop"
  /\ kfIndex <= Len(keyframes)
  /\ StopsAt(keyframes[kfIndex])
  /\ LET dt == timeMs - prevMs
         ncx == Advance(cx, panHL, dt)
         ncy == Advance(cy, panHL, dt)
         nzoom == Advance(zoomSpring, zoomHL, dt)
     IN  /\ cx' = ncx
         /\ cy' = ncy
         /\ zoomSpring' = nzoom
         /\ updates' = LogUpdate(dt)
         /\ Return(ncx, ncy, nzoom)
  /\ UNCHANGED <<keyframes, timeMs, screenWidth, screenHeight, panHL, zoomHL,
                 prevMs, kfIndex, applied, lastTimeMs>>

\* loop body, keyframe at or before timeMs: advance to it and apply it
LoopApply ==
  /\ vpPc = "loop"
  /\ kfIndex <= Len(keyframes)
  /\ ~StopsAt(keyframes[kfIndex])
  /\ LET kf == keyframes[kfIndex]
         dt == kf.time_ms - prevMs
         nzoom == Advance(zoomSpring, zoomHL, dt)
     IN  /\ cx' = [Advance(cx, panHL, dt) EXCEPT !.target = kf.target_x]
         /\ cy' = [Advance(cy, panHL, dt) EXCEPT !.target = kf.target_y]
         /\ zoomSpring' = [nzoom EXCEPT !.target = kf.zoom_level]
         /\ updates' = LogUpdate(dt)
         /\ zoomHL' = NextZoomHL(kf, nzoom.position)
         /\ panHL' = NextPanHL(kf)
         /\ prevMs' = NextPrevMs(kf)
  /\ applied' = Append(applied, kfIndex)
  /\ kfIndex' = kfIndex + 1
  /\ UNCHANGED <<keyframes, timeMs, screenWidth, screenHeight, vpPc, viewport, memo,
                 lastTimeMs>>

\* past all keyframes: advance the remaining time and return
LoopExit ==
  /\ vpPc = "loop"
  /\ kfIndex > Len(keyframes)
  /\ LET dt == timeMs - prevMs
         ncx == Advance(cx, panHL, dt)
         ncy == Advance(cy, panHL, dt)
         nzoom == Advance(zoomSpring, zoomHL, dt)
     IN  /\ cx' = ncx
         /\ cy' = ncy
         /\ zoomSpring' = nzoom
         /\ updates' = LogUpdate(dt)
         /\ Return(ncx, ncy, nzoom)
  /\ UNCHANGED <<keyframes, timeMs, screenWidth, screenHeight, panHL, zoomHL,
                 prevMs, kfIndex, applied, lastTimeMs>>

ViewportInit ==
  /\ \E size \in ScreenSizes :
       /\ screenWidth = size[1] * FP
       /\ screenHeight = size[2] * FP
       /\ keyframes \in KeyframeLists(size[1] * FP, size[2] * FP)
  /\ timeMs = 0
  /\ cx = NewSpring(0)
  /\ cy = NewSpring(0)
  /\ zoomSpring = NewSpring(FP)
  /\ panHL = DefaultPanHL
  /\ zoomHL = DefaultZoomInHL
  /\ prevMs = 0
  /\ kfIndex = 1
  /\ vpPc = "idle"
  /\ viewport = Null
  /\ applied = <<>>
  /\ updates = <<>>
  /\ memo = Null
  /\ lastTimeMs = 0 - 1

\* computeViewportAt is not running
ViewportIdle ==
  /\ keyframes = <<>>
  /\ screenWidth = FP
  /\ screenHeight = FP
  /\ timeMs = 0
  /\ cx = NewSpring(0)
  /\ cy = NewSpring(0)
  /\ zoomSpring = NewSpring(FP)
  /\ panHL = DefaultPanHL
  /\ zoomHL = DefaultZoomInHL
  /\ prevMs = 0
  /\ kfIndex = 1
  /\ vpPc = "idle"
  /\ viewport = Null
  /\ applied = <<>>
  /\ updates = <<>>
  /\ memo = Null
  /\ lastTimeMs = 0 - 1

(***************************************************************************)
(* A Spring on its own: targets are set and update is called with any      *)
(* half-life and any dt, valid or not.                                     *)
(***************************************************************************)
\* number of update calls in a run
MaxUpdates == 3

SpringPositions == {0, 8 * FP, 16 * FP}

\* half-lives in microseconds: negative, zero, below EPSILON, EPSILON, valid
HalfLives == {0 - 50000, 0, 5, EPSILON, DefaultPanHL, DefaultZoomOutHL}

\* dt in milliseconds: negative, zero, positive
Dts == {0 - 100, 0, 100, 300}

SpringInit ==
  /\ spring \in {NewSpring(p) : p \in SpringPositions}
  /\ lastUpdate = Null
  /\ threw = FALSE
  /\ nUpdates = 0

SpringIdle ==
  /\ spring = NewSpring(0)
  /\ lastUpdate = Null
  /\ threw = FALSE
  /\ nUpdates = 0

\* spring.target = value
SetTarget(value) ==
  /\ spring.target # value
  /\ spring' = [spring EXCEPT !.target = value]
  /\ lastUpdate' = Null
  /\ threw' = FALSE
  /\ UNCHANGED nUpdates

\* spring.update(halfLife, dt)
Update(halfLife, dt) ==
  /\ nUpdates < MaxUpdates
  /\ threw' = SpringUpdateThrows(spring, halfLife, dt)
  /\ spring' = IF threw' THEN spring ELSE SpringUpdate(spring, halfLife, dt)
  /\ lastUpdate' = [halfLife |-> halfLife, dt |-> dt, before |-> spring]
  /\ nUpdates' = nUpdates + 1

(***************************************************************************)
(* zoomSegments.ts                                                         *)
(***************************************************************************)
\* longest segment list
MaxSegments == 2

\* [startMs, endMs] ranges of a segment: 0 <= startMs < endMs
SegmentRanges == {<<0, 1000>>, <<0, 2500>>, <<500, 1000>>, <<500, 2500>>,
                  <<1000, 2500>>, <<2500, 5000>>}

SegmentZooms == {(3 * FP) \div 2, 2 * FP}

\* interface ZoomSegment
ZoomSegment(id, range, zoomLevel) ==
  [id |-> id, startMs |-> range[1], endMs |-> range[2], zoomLevel |-> zoomLevel,
   centerX |-> 4 * FP, centerY |-> 4 * FP]

\* segment lists, ids 1..n in list order; any order, overlaps included
SegmentLists ==
  UNION {{[i \in 1..n |-> ZoomSegment(i, f[i][1], f[i][2])] :
            f \in [1..n -> SegmentRanges \X SegmentZooms]} : n \in 0..MaxSegments}

\* Array.prototype.sort((a, b) => a[field] - b[field]): stable, ascending
RECURSIVE InsertAfterLE(_, _, _)
InsertAfterLE(s, x, field) ==
  IF s = <<>> THEN <<x>>
  ELSE IF s[Len(s)][field] <= x[field] THEN Append(s, x)
  ELSE Append(InsertAfterLE(SubSeq(s, 1, Len(s) - 1), x, field), s[Len(s)])

RECURSIVE SortByField(_, _)
SortByField(s, field) ==
  IF s = <<>> THEN <<>>
  ELSE InsertAfterLE(SortByField(SubSeq(s, 1, Len(s) - 1), field), s[Len(s)], field)

\* no overview keyframe pushed at t = 0
NoOverviewKeyframe(sw, sh) == <<>>

\* the overview keyframe pushed first
OverviewKeyframe(sw, sh) ==
  <<[time_ms |-> 0, target_x |-> sw \div 2, target_y |-> sh \div 2,
     zoom_level |-> FP, transition |-> "Smooth", spring_hint |-> Null]>>

\* the two keyframes pushed for one segment
SegmentKeyframes(seg, sw, sh) ==
  <<[time_ms |-> seg.startMs, target_x |-> seg.centerX, target_y |-> seg.centerY,
     zoom_level |-> seg.zoomLevel, transition |-> "SpringIn", spring_hint |-> Null],
    [time_ms |-> seg.endMs, target_x |-> sw \div 2, target_y |-> sh \div 2,
     zoom_level |-> FP, transition |-> "SpringOut", spring_hint |-> Null]>>

\* the for-of loop over the sorted segments
RECURSIVE PushSegments(_, _, _)
PushSegments(sorted, sw, sh) ==
  IF sorted = <<>> THEN <<>>
  ELSE SegmentKeyframes(sorted[1], sw, sh) \o PushSegments(Tail(sorted), sw, sh)

\* the keyframes left in the order they were pushed
KeepPushOrder(kfs) == kfs

\* kfs.sort((a, b) => a.time_ms - b.time_ms)
SortKeyframes(kfs) == SortByField(kfs, "time_ms")

segmentsToKeyframes(segs, sw, sh) ==
  LET sorted == SortByField(segs, "startMs")
  IN  SortKeyframes(OverviewKeyframe(sw, sh) \o PushSegments(sorted, sw, sh))

ZOOM_THRESHOLD == (105 * FP) \div 100

DEFAULT_SEGMENT_DURATION_MS == 3000

\* px
CENTER_JUMP_THRESHOLD == 200

\* Math.sqrt(dx * dx + dy * dy) > CENTER_JUMP_THRESHOLD, on 1/16 px
CenterJumped(kf, centerX, centerY) ==
  LET dx == (kf.target_x - centerX) \div 16
      dy == (kf.target_y - centerY) \div 16
  IN  dx * dx + dy * dy > (CENTER_JUMP_THRESHOLD * 16) * (CENTER_JUMP_THRESHOLD * 16)

\* flushSegment(endMs); st holds the locals of keyframesToSegments and the
\* module's nextId
FlushSegment(st, endMs) ==
  IF st.segStart = Null THEN st
  ELSE [st EXCEPT !.segments = Append(@, [id |-> st.nextId,
                                          startMs |-> st.segStart.time_ms,
                                          endMs |-> endMs,
                                          zoomLevel |-> st.maxZoom,
                                          centerX |-> st.centerX,
                                          centerY |-> st.centerY]),
                  !.nextId = @ + 1,
                  !.segStart = Null,
                  !.maxZoom = FP]

\* segStart = kf and the three assignments after it
StartSegment(st, kf) ==
  [st EXCEPT !.segStart = kf, !.maxZoom = kf.zoom_level,
             !.centerX = kf.target_x, !.centerY = kf.target_y]

\* one iteration of the for loop
SegmentStep(st, kf) ==
  IF kf.zoom_level > ZOOM_THRESHOLD
    THEN IF st.segStart = Null THEN StartSegment(st, kf)
         ELSE IF CenterJumped(kf, st.centerX, st.centerY)
           THEN StartSegment(FlushSegment(st, kf.time_ms), kf)
         ELSE [st EXCEPT !.maxZoom = Max(@, kf.zoom_level)]
  ELSE FlushSegment(st, kf.time_ms)

RECURSIVE SegmentLoop(_, _)
SegmentLoop(st, sorted) ==
  IF sorted = <<>> THEN st
  ELSE SegmentLoop(SegmentStep(st, sorted[1]), Tail(sorted))

\* keyframesToSegments(kfs) with the id counter at firstId; the result is
\* [segments, nextId]
keyframesToSegments(kfs, firstId) ==
  IF kfs = <<>> THEN [segments |-> <<>>, nextId |-> firstId]
  ELSE LET sorted == SortByField(kfs, "time_ms")
           st0 == [segments |-> <<>>, nextId |-> firstId, segStart |-> Null,
                   maxZoom |-> FP, centerX |-> 0, centerY |-> 0]
           st1 == SegmentLoop(st0, sorted)
           st2 == FlushSegment(st1, sorted[Len(sorted)].time_ms
                                      + DEFAULT_SEGMENT_DURATION_MS)
       IN  [segments |-> st2.segments, nextId |-> st2.nextId]

SegmentsInit ==
  /\ segments = <<>>
  /\ kfsOut = <<>>

SegmentsIdle ==
  /\ segments = <<>>
  /\ kfsOut = <<>>

\* segmentsToKeyframes(segments, screenWidth, screenHeight)
CallSegmentsToKeyframes(sw, sh) ==
  /\ kfsOut' = segmentsToKeyframes(segments, sw, sh)
  /\ UNCHANGED segments

\* the caller holds another segment list
ChangeSegments(segs) ==
  /\ segments' = segs
  /\ kfsOut' = <<>>

(***************************************************************************)
(* VideoPlayer.tsx (the spring-preview player)                             *)
(***************************************************************************)
\* latest animation-frame timestamp explored, ms
MaxTime == 150

\* most tick callbacks left waiting for one animation frame
MaxCallbacks == 3

\* (frame_count, duration_ms) of the recording shown
Recordings == {<<0, 0>>, <<0, 100>>, <<1, 40>>, <<3, 100>>, <<3, 0>>}

\* time between two animation frames, ms
FrameDeltas == {16, 50}

\* times the page seeks to, ms
SeekTimes == {0, 40, 100}

\* pointer positions on the seek bar, percent of its width
SeekPercents == {0, 50, 100}

Undefined == 0 - 1

NaN == 0 - 1000000

Infinity == 1000000

\* the frame time of a nominal 30 fps, whatever the recording
NominalMsPerFrameNum == 3333

\* msPerFrame() as the fraction MsPerFrameNum / MsPerFrameDen
MsPerFrameNum == IF frameCount > 0 THEN durationMs ELSE 3333

MsPerFrameDen == IF frameCount > 0 THEN frameCount ELSE 100

\* playbackPos is held in units of 1 / PosUnit frame
PosUnit == IF MsPerFrameNum > 0 THEN MsPerFrameNum ELSE 1

\* currentTimeMs() = (currentFrame() - 1) * msPerFrame(), as the fraction
\* num / den; the effect on it hands it to props.onTimeChange
currentTimeMs ==
  IF currentFrame = NaN THEN [num |-> NaN, den |-> 1]
  ELSE [num |-> (currentFrame - 1) * MsPerFrameNum, den |-> MsPerFrameDen]

\* frame - 1 as a playback position
FrameToPos(frame) == IF frame = NaN THEN NaN ELSE (frame - 1) * PosUnit

\* delta / msPerFrame()
FramesToAdvance(delta) ==
  IF MsPerFrameNum > 0 THEN delta * MsPerFrameDen
  ELSE IF delta > 0 THEN Infinity ELSE NaN

\* playbackPos += framesToAdvance
AddPos(pos, adv) ==
  IF pos = NaN \/ adv = NaN THEN NaN
  ELSE IF adv = Infinity THEN Infinity
  ELSE pos + adv

\* Math.floor(playbackPos) + 1
FloorFrame(pos) == IF pos = NaN THEN NaN ELSE (pos \div PosUnit) + 1

\* playbackPos >= props.frameCount - 1
ReachedEnd(pos) ==
  /\ pos # NaN
  /\ pos = Infinity \/ pos >= (frameCount - 1) * PosUnit

\* the frame taken as computed
UnclampedFrame(frame) == frame

\* Math.max(1, Math.min(props.frameCount, frame))
ClampFrame(frame) ==
  IF frame = NaN THEN NaN ELSE Max(1, Min(frameCount, frame))

\* Math.round(seekMs / msPerFrame()) + 1
SeekFrame(seekMs) ==
  IF MsPerFrameNum > 0
    THEN ((2 * seekMs * MsPerFrameDen + MsPerFrameNum) \div (2 * MsPerFrameNum)) + 1
  ELSE IF seekMs > 0 THEN Infinity ELSE NaN

\* Math.round(pct * (props.frameCount - 1)) + 1, pct in percent
PointerFrame(pct) == ((2 * pct * (frameCount - 1) + 100) \div 200) + 1

\* the component's mutable state while handlers run; batch counts the
\* callbacks of the running animation frame that have not run yet
PlayerState ==
  [playing |-> playing, currentFrame |-> currentFrame, playbackPos |-> playbackPos,
   lastTimestamp |-> lastTimestamp, animationRef |-> animationRef,
   next |-> scheduled, batch |-> 0]

\* animationRef = requestAnimationFrame(tick)
RequestFrame(p) == [p EXCEPT !.animationRef = "next", !.next = @ + 1]

\* if (animationRef) { cancelAnimationFrame(animationRef); animationRef = undefined }
CancelFrame(p) ==
  [p EXCEPT !.animationRef = "undefined",
            !.next = IF p.animationRef = "next" THEN @ - 1 ELSE @,
            !.batch = IF p.animationRef = "batch" THEN @ - 1 ELSE @]

\* the effect on playing(); it also reads currentFrame() while playing
PlayingEffect(p) ==
  IF p.playing
    THEN RequestFrame([p EXCEPT !.playbackPos = FrameToPos(p.currentFrame),
                                !.lastTimestamp = Undefined])
  ELSE [CancelFrame(p) EXCEPT !.lastTimestamp = Undefined]

\* setCurrentFrame(frame): a changed value re-runs the effect that read it
SetCurrentFrame(p, frame) ==
  LET q == [p EXCEPT !.currentFrame = frame]
  IN  IF p.playing /\ (frame # p.currentFrame \/ frame = NaN) THEN PlayingEffect(q) ELSE q

\* the effect on props.seekToTimeMs and playing()
SeekEffect(p, seekMs) ==
  IF seekMs # Undefined /\ seekMs >= 0 /\ ~p.playing
    THEN LET frame == ClampFrame(SeekFrame(seekMs))
         IN  SetCurrentFrame([p EXCEPT !.playbackPos = FrameToPos(frame)], frame)
  ELSE p

\* setPlaying(value): a changed value re-runs both effects that read it
SetPlaying(p, value) ==
  IF value = p.playing THEN p
  ELSE SeekEffect(PlayingEffect([p EXCEPT !.playing = value]), seekToTimeMs)

\* tick(timestamp)
Tick(p, timestamp) ==
  IF ~p.playing THEN p
  ELSE IF p.lastTimestamp # Undefined
    THEN LET delta == timestamp - p.lastTimestamp
             pos == AddPos(p.playbackPos, FramesToAdvance(delta))
         IN  IF ReachedEnd(pos)
               THEN LET atEnd == SetCurrentFrame(
                                   [p EXCEPT !.playbackPos = FrameToPos(frameCount)],
                                   frameCount)
                    IN  [SetPlaying(atEnd, FALSE) EXCEPT !.lastTimestamp = Undefined]
             ELSE LET shown == SetCurrentFrame([p EXCEPT !.playbackPos = pos],
                                               FloorFrame(pos))
                  IN  RequestFrame([shown EXCEPT !.lastTimestamp = timestamp])
  ELSE RequestFrame([p EXCEPT !.lastTimestamp = timestamp])

\* the browser runs the callbacks of one animation frame in request order,
\* all with the same timestamp
RECURSIVE RunCallbacks(_, _)
RunCallbacks(p, timestamp) ==
  IF p.batch <= 0 THEN p
  ELSE LET started == [p EXCEPT !.batch = @ - 1,
                                !.animationRef = IF @ = "batch" /\ p.batch = 1
                                                   THEN "ran" ELSE @]
       IN  RunCallbacks(Tick(started, timestamp), timestamp)

\* the handlers write the component state back
Commit(p) ==
  /\ p.next <= MaxCallbacks
  /\ playing' = p.playing
  /\ currentFrame' = p.currentFrame
  /\ playbackPos' = p.playbackPos
  /\ lastTimestamp' = p.lastTimestamp
  /\ animationRef' = IF p.animationRef = "batch" THEN "ran" ELSE p.animationRef
  /\ scheduled' = p.next

PlayerInit ==
  /\ \E rec \in Recordings : frameCount = rec[1] /\ durationMs = rec[2]
  /\ seekToTimeMs = Undefined
  /\ playing = FALSE
  /\ currentFrame = 1
  /\ seeking = FALSE
  /\ playbackPos = 0
  /\ lastTimestamp = Undefined
  /\ animationRef = "undefined"
  /\ scheduled = 0
  /\ now = 0

PlayerIdle ==
  /\ frameCount = 0
  /\ durationMs = 0
  /\ seekToTimeMs = Undefined
  /\ playing = FALSE
  /\ currentFrame = 1
  /\ seeking = FALSE
  /\ playbackPos = 0
  /\ lastTimestamp = Undefined
  /\ animationRef = "undefined"
  /\ scheduled = 0
  /\ now = 0

\* one animation frame: every waiting tick callback runs
AnimationFrame(delta) ==
  /\ now + delta <= MaxTime
  /\ now' = now + delta
  /\ LET p == [PlayerState EXCEPT !.batch = scheduled, !.next = 0,
                                  !.animationRef = IF @ = "next" THEN "batch" ELSE @]
     IN  Commit(RunCallbacks(p, now + delta))
  /\ UNCHANGED <<frameCount, durationMs, seekToTimeMs, seeking>>

\* togglePlay()
TogglePlay ==
  /\ LET p == PlayerState
         rewound == IF p.currentFrame # NaN /\ p.currentFrame >= frameCount
                      THEN [SetCurrentFrame(p, 1) EXCEPT !.playbackPos = 0]
                    ELSE p
     IN  Commit(SetPlaying(rewound, ~rewound.playing))
  /\ UNCHANGED <<frameCount, durationMs, seekToTimeMs, seeking, now>>

\* seekTo(e)
SeekToPointer(p, pct) ==
  LET frame == ClampFrame(PointerFrame(pct))
  IN  SetCurrentFrame([p EXCEPT !.playbackPos = FrameToPos(frame)], frame)

\* onSeekStart(e): mousedown on the seek bar
OnSeekStart(pct) ==
  /\ seeking' = TRUE
  /\ Commit(SeekToPointer(SetPlaying(PlayerState, FALSE), pct))
  /\ UNCHANGED <<frameCount, durationMs, seekToTimeMs, now>>

\* onMove: mousemove while the seek bar is held
OnMove(pct) ==
  /\ seeking
  /\ Commit(SeekToPointer(PlayerState, pct))
  /\ UNCHANGED <<frameCount, durationMs, seekToTimeMs, seeking, now>>

\* onUp: mouseup ends the drag
OnUp ==
  /\ seeking
  /\ seeking' = FALSE
  /\ UNCHANGED <<frameCount, durationMs, seekToTimeMs, playing, currentFrame,
                 playbackPos, lastTimestamp, animationRef, scheduled, now>>

\* stepFrame(delta)
StepFrame(delta) ==
  /\ LET p == SetPlaying(PlayerState, FALSE)
         next == ClampFrame(IF p.currentFrame = NaN THEN NaN ELSE p.currentFrame + delta)
     IN  Commit(SetCurrentFrame([p EXCEPT !.playbackPos = FrameToPos(next)], next))
  /\ UNCHANGED <<frameCount, durationMs, seekToTimeMs, seeking, now>>

\* the page changes props.seekToTimeMs (its timeline exists only when
\* duration_ms > 0)
SeekFromPage(seekMs) ==
  /\ durationMs > 0
  /\ seekMs # seekToTimeMs
  /\ seekToTimeMs' = seekMs
  /\ Commit(SeekEffect(PlayerState, seekMs))
  /\ UNCHANGED <<frameCount, durationMs, seeking, now>>

(***************************************************************************)
(* Preview.tsx: mounting, export and the export events                     *)
(***************************************************************************)
\* exports started in one run
MaxJobs == 2

\* messages the backend has sent that the page has not handled yet
MaxInFlight == 2

\* largest segment id handed out
MaxSegmentId == 2

\* null of a string-valued signal
NullString == "null"

\* the recording the preview is opened for
RecordingInfo ==
  [screen_width |-> 1000 * FP, screen_height |-> 500 * FP, duration_ms |-> 6000]

\* keyframe lists get_zoom_keyframes answers with
BackendKeyframeLists ==
  {<<>>,
   <<[time_ms |-> 0, target_x |-> 500 * FP, target_y |-> 250 * FP, zoom_level |-> FP,
      transition |-> "Smooth", spring_hint |-> Null],
     [time_ms |-> 500, target_x |-> 100 * FP, target_y |-> 100 * FP,
      zoom_level |-> 2 * FP, transition |-> "SpringIn", spring_hint |-> Null],
     [time_ms |-> 2500, target_x |-> 500 * FP, target_y |-> 250 * FP, zoom_level |-> FP,
      transition |-> "SpringOut", spring_hint |-> Null]>>}

ExportFormats == {"Mp4", "Gif"}

\* the signals of a freshly created Preview
PreviewCreated ==
  /\ exporting' = FALSE
  /\ exportedPath' = NullString
  /\ error' = NullString
  /\ recordingInfo' = Null
  /\ exportProgress' = Null
  /\ segments' = <<>>
  /\ unlistenProgress' = FALSE
  /\ unlistenComplete' = FALSE
  /\ unlistenError' = FALSE

ExportInit ==
  /\ page = "list"
  /\ currentRecordingId = NullString
  /\ mountPc = "unmounted"
  /\ exporting = FALSE
  /\ exportedPath = NullString
  /\ error = NullString
  /\ recordingInfo = Null
  /\ exportProgress = Null
  /\ unlistenProgress = FALSE
  /\ unlistenComplete = FALSE
  /\ unlistenError = FALSE
  /\ nextId = 1
  /\ jobs = <<>>
  /\ channel = <<>>

ExportIdle == ExportInit

\* ids of the recordings in the list: one made earlier and those made since
RecordingId(k) == "rec_" \o ToString(k)

RecordingIds == {RecordingId(k) : k \in 0..recordings}

\* the Preview leaves the page: onCleanup removes its listeners
UnmountPreview ==
  /\ mountPc' = "unmounted"
  /\ PreviewCreated
  /\ jobs' = [j \in DOMAIN jobs |-> [jobs[j] EXCEPT !.caller = FALSE]]

\* setPage(to): <Show when={page() === "preview"}> creates a Preview, whose
\* onMount starts, when the page becomes "preview" and disposes of it when
\* the page stops being "preview"
SetPage(to) ==
  /\ page' = to
  /\ IF to = "preview" /\ page # "preview"
       THEN mountPc' = "getRecordingsList" /\ PreviewCreated /\ UNCHANGED jobs
     ELSE IF to # "preview" /\ page = "preview"
       THEN UnmountPreview
     ELSE UNCHANGED <<mountPc, exporting, exportedPath, error, recordingInfo,
                      exportProgress, segments, unlistenProgress, unlistenComplete,
                      unlistenError, jobs>>

\* RecordingList: onOpenPreview(id)
OpenPreview(id) ==
  /\ page = "list"
  /\ currentRecordingId' = id
  /\ SetPage("preview")
  /\ UNCHANGED <<nextId, channel>>

\* onMount: await getRecordingsList() settles
GetRecordingsListDone(found) ==
  /\ mountPc = "getRecordingsList"
  /\ recordingInfo' = IF found THEN RecordingInfo ELSE recordingInfo
  /\ mountPc' = "getZoomKeyframes"
  /\ UNCHANGED <<page, currentRecordingId, exporting, exportedPath, error, exportProgress, segments,
                 unlistenProgress, unlistenComplete, unlistenError, nextId, jobs, channel>>

\* onMount: await getZoomKeyframes() settles
GetZoomKeyframesDone(ok, kfs) ==
  /\ mountPc = "getZoomKeyframes"
  /\ LET made == keyframesToSegments(kfs, nextId)
     IN  /\ ok => made.nextId <= MaxSegmentId + 1
         /\ segments' = IF ok THEN made.segments ELSE segments
         /\ nextId' = IF ok THEN made.nextId ELSE nextId
  /\ mountPc' = "listenProgress"
  /\ UNCHANGED <<page, currentRecordingId, exporting, exportedPath, error, exportProgress, recordingInfo,
                 unlistenProgress, unlistenComplete, unlistenError, jobs, channel>>

\* onMount: one of the three await listen(...) settles
ListenDone ==
  /\ mountPc \in {"listenProgress", "listenComplete", "listenError"}
  /\ unlistenProgress' = (unlistenProgress \/ mountPc = "listenProgress")
  /\ unlistenComplete' = (unlistenComplete \/ mountPc = "listenComplete")
  /\ unlistenError' = (unlistenError \/ mountPc = "listenError")
  /\ mountPc' = CASE mountPc = "listenProgress" -> "listenComplete"
                  [] mountPc = "listenComplete" -> "listenError"
                  [] mountPc = "listenError" -> "mounted"
  /\ UNCHANGED <<page, currentRecordingId, exporting, exportedPath, error, exportProgress, recordingInfo,
                 segments, nextId, jobs, channel>>

\* the command handleExport invokes
ExportCommand(segs, rec) ==
  IF Len(segmentsToKeyframes(segs, rec.screen_width, rec.screen_height)) > 1
    THEN "export_with_keyframes"
  ELSE "export_recording"

\* the keyframes handleExport passes to the command: exportRecording takes
\* none, so none reach the backend
ExportKeyframes(segs, rec) ==
  LET kfs == segmentsToKeyframes(segs, rec.screen_width, rec.screen_height)
  IN  IF Len(kfs) > 1 THEN kfs ELSE <<>>

\* handleExport(format), up to its await; the buttons are disabled while
\* exporting
HandleExport(format) ==
  /\ page = "preview"
  /\ currentRecordingId # NullString
  /\ ~exporting
  /\ recordingInfo # Null
  /\ Len(jobs) < MaxJobs
  /\ exporting' = TRUE
  /\ error' = NullString
  /\ exportedPath' = NullString
  /\ exportProgress' = [stage |-> "starting", progress |-> 0, output_path |-> NullString]
  /\ jobs' = Append(jobs, [phase |-> "composing", format |-> format, caller |-> TRUE,
                           command |-> ExportCommand(segments, recordingInfo),
                           keyframes |-> ExportKeyframes(segments, recordingInfo)])
  /\ UNCHANGED <<page, currentRecordingId, mountPc, recordingInfo, segments, unlistenProgress,
                 unlistenComplete, unlistenError, nextId, channel>>

\* App: onClose unmounts the Preview; onCleanup removes its listeners
ClosePreview ==
  /\ page = "preview"
  /\ currentRecordingId' = NullString
  /\ SetPage("list")
  /\ UNCHANGED <<nextId, channel>>

\* the backend publishes a message on the event channel
Emit(message) ==
  /\ Len(channel) < MaxInFlight
  /\ channel' = Append(channel, message)

OutputPath(j) == "export_" \o ToString(j)

\* a job goes from composing to encoding and publishes its progress
JobProgress(j) ==
  /\ jobs[j].phase = "composing"
  /\ jobs' = [jobs EXCEPT ![j].phase = "encoding"]
  /\ Emit([name |-> "export-progress",
           payload |-> [stage |-> "encoding", progress |-> 50, output_path |-> NullString]])
  /\ UNCHANGED <<page, currentRecordingId, mountPc, exporting, exportedPath, error, exportProgress,
                 recordingInfo, segments, unlistenProgress, unlistenComplete,
                 unlistenError, nextId>>

\* a job ends: its output is written, it fails, or its command is refused
JobEnd(j, outcome) ==
  /\ jobs[j].phase # "ended"
  /\ jobs' = [jobs EXCEPT ![j].phase = "ended"]
  /\ Emit(CASE outcome = "complete" ->
                 [name |-> "export-complete", payload |-> [output_path |-> OutputPath(j)]]
            [] outcome = "error" ->
                 [name |-> "export-error", payload |-> [message |-> "export failed"]]
            [] outcome = "rejected" ->
                 [name |-> "rejected", payload |-> [job |-> j]])
  /\ UNCHANGED <<page, currentRecordingId, mountPc, exporting, exportedPath, error, exportProgress,
                 recordingInfo, segments, unlistenProgress, unlistenComplete,
                 unlistenError, nextId>>

JobOutcomes == {"complete", "error", "rejected"}

\* the oldest message reaches the page: a listener, or the catch of the
\* handleExport that awaits the command, runs
Deliver ==
  /\ channel # <<>>
  /\ channel' = Tail(channel)
  /\ LET m == Head(channel)
         onProgress == m.name = "export-progress" /\ unlistenProgress
         onComplete == m.name = "export-complete" /\ unlistenComplete
         onError == m.name = "export-error" /\ unlistenError
         caught == m.name = "rejected" /\ jobs[m.payload.job].caller
     IN  /\ exporting' = IF onComplete \/ onError \/ caught THEN FALSE ELSE exporting
         /\ exportProgress' = IF onProgress THEN m.payload
                              ELSE IF onComplete \/ onError \/ caught THEN Null
                              ELSE exportProgress
         /\ exportedPath' = IF onComplete THEN m.payload.output_path ELSE exportedPath
         /\ error' = IF onError THEN m.payload.message
                     ELSE IF caught THEN "command failed"
                     ELSE error
  /\ UNCHANGED <<page, currentRecordingId, mountPc, recordingInfo, segments, unlistenProgress,
                 unlistenComplete, unlistenError, nextId, jobs>>

(***************************************************************************)
(* App.tsx: recording state, page, and the commands sent to the recorder.  *)
(* The recorder runs behind invoke(); its commands are answered in the     *)
(* order they were sent and the answers are handled in that order.         *)
(***************************************************************************)
MaxCalls == 5
MaxElapsed == 1

Call(cmd) == [cmd |-> cmd, status |-> "sent", result |-> NullString]

\* invoke(cmd): the command is on its way to the recorder
Invoke(cmd) ==
  /\ nCalls < MaxCalls
  /\ calls' = Append(calls, Call(cmd))
  /\ nCalls' = nCalls + 1

\* App.tsx: if (timerRef) clearInterval(timerRef)
ClearInterval ==
  IF timerRef = "live"
    THEN timerRef' = "cleared" /\ intervals' = intervals - 1
    ELSE UNCHANGED <<timerRef, intervals>>

\* App.tsx: timerRef = window.setInterval(...)
SetInterval ==
  /\ timerRef' = "live"
  /\ intervals' = intervals + 1

\* none of the signals the Preview page depends on changes
PageKept ==
  UNCHANGED <<page, currentRecordingId, mountPc, exporting, exportedPath, error,
              recordingInfo, exportProgress, segments, unlistenProgress,
              unlistenComplete, unlistenError, jobs>>

AppInit ==
  /\ recordingState = "Idle"
  /\ elapsed = 0
  /\ timerRef = "undefined"
  /\ intervals = 0
  /\ appMountPc = "getRecordingState"
  /\ importing = 0
  /\ calls = <<Call("get_recording_state")>>
  /\ nCalls = 1
  /\ recorder = "Idle"
  /\ recordings = 0
  /\ stopHandled = FALSE

AppIdle == AppInit

\* the places handleToggleRecording is called from: the list page's record
\* button, the recording bar's stop button, the preview page's redo button,
\* the tray menu and the global shortcut once they are listened to
ToggleAvailable ==
  \/ page = "list"
  \/ recordingState \in {"Recording", "Paused"}
  \/ page = "preview"
  \/ appMountPc \in {"listenTraySettings", "listenShortcut", "mounted"}

\* handleToggleRecording, up to its await
HandleToggleRecording ==
  /\ ToggleAvailable
  /\ IF recordingState = "Idle"
       THEN /\ Invoke("start_recording")
            /\ stopHandled' = FALSE
            /\ UNCHANGED <<timerRef, intervals>>
       ELSE /\ recordingState \in {"Recording", "Paused"}
            /\ ClearInterval
            /\ Invoke("stop_recording")
            /\ UNCHANGED stopHandled
  /\ PageKept
  /\ UNCHANGED <<recordingState, elapsed, appMountPc, importing, recorder, recordings>>

\* RecordingBar onPause, up to await import("./lib/commands")
OnPause ==
  /\ recordingState \in {"Recording", "Paused"}
  /\ importing + nCalls < MaxCalls
  /\ importing' = importing + 1
  /\ PageKept
  /\ UNCHANGED <<recordingState, elapsed, timerRef, intervals, appMountPc, calls,
                 nCalls, recorder, recordings, stopHandled>>

\* RecordingBar onPause, from the import to the command it sends
OnPauseImported ==
  /\ importing > 0
  /\ importing' = importing - 1
  /\ IF recordingState = "Recording"
       THEN Invoke("pause_recording")
       ELSE Invoke("resume_recording")
  /\ PageKept
  /\ UNCHANGED <<recordingState, elapsed, timerRef, intervals, appMountPc,
                 recorder, recordings, stopHandled>>

\* the recorder's answer to a command; stop_recording of a running recording
\* may fail, and a command that does not apply to the recorder's state fails
Answer(c, ok) ==
  CASE c.cmd = "get_recording_state" ->
         [status |-> "ok", result |-> recorder, recorder |-> recorder, made |-> 0]
    [] c.cmd = "start_recording" /\ recorder = "Idle" ->
         [status |-> "ok", result |-> NullString, recorder |-> "Recording", made |-> 0]
    [] c.cmd = "stop_recording" /\ recorder \in {"Recording", "Paused"} /\ ok ->
         [status |-> "ok", result |-> RecordingId(recordings + 1),
          recorder |-> "Idle", made |-> 1]
    [] c.cmd = "pause_recording" /\ recorder = "Recording" ->
         [status |-> "ok", result |-> NullString, recorder |-> "Paused", made |-> 0]
    [] c.cmd = "resume_recording" /\ recorder = "Paused" ->
         [status |-> "ok", result |-> NullString, recorder |-> "Recording", made |-> 0]
    [] OTHER ->
         [status |-> "err", result |-> NullString, recorder |-> recorder, made |-> 0]

\* the commands not answered yet
Unanswered == {i \in DOMAIN calls : calls[i].status = "sent"}

\* the recorder answers the oldest command it has not answered
RecorderAnswers(ok) ==
  /\ Unanswered # {}
  /\ LET i == CHOOSE i \in Unanswered : \A j \in Unanswered : i <= j
         a == Answer(calls[i], ok)
     IN  /\ calls' = [calls EXCEPT ![i].status = a.status, ![i].result = a.result]
         /\ recorder' = a.recorder
         /\ recordings' = recordings + a.made
  /\ PageKept
  /\ UNCHANGED <<recordingState, elapsed, timerRef, intervals, appMountPc, importing,
                 nCalls, stopHandled>>

\* the answer the page handles next
Answered(cmd, status) ==
  /\ calls # <<>>
  /\ Head(calls).cmd = cmd
  /\ Head(calls).status = status
  /\ calls' = Tail(calls)

\* onMount after await getRecordingState()
GetRecordingStateResolved ==
  /\ Answered("get_recording_state", "ok")
  /\ recordingState' = Head(calls).result
  /\ appMountPc' = "listenTrayStart"
  /\ PageKept
  /\ UNCHANGED <<elapsed, timerRef, intervals, importing, nCalls, recorder,
                 recordings, stopHandled>>

\* onMount: each await listen(...) registers one listener
AppListenDone ==
  /\ appMountPc \in {"listenTrayStart", "listenTraySettings", "listenShortcut"}
  /\ appMountPc' = CASE appMountPc = "listenTrayStart" -> "listenTraySettings"
                     [] appMountPc = "listenTraySettings" -> "listenShortcut"
                     [] OTHER -> "mounted"
  /\ PageKept
  /\ UNCHANGED <<recordingState, elapsed, timerRef, intervals, importing, calls,
                 nCalls, recorder, recordings, stopHandled>>

\* handleToggleRecording after await startRecording()
StartResolved ==
  /\ Answered("start_recording", "ok")
  /\ recordingState' = "Recording"
  /\ elapsed' = 0
  /\ SetInterval
  /\ PageKept
  /\ UNCHANGED <<appMountPc, importing, nCalls, recorder, recordings, stopHandled>>

\* the page stays what it was
PageLeftAfterStop == page

\* the page handleToggleRecording sets after a stop
PageAfterStop == "preview"

\* handleToggleRecording after await stopRecording()
StopResolved ==
  /\ Answered("stop_recording", "ok")
  /\ recordingState' = "Idle"
  /\ currentRecordingId' = Head(calls).result
  /\ SetPage(PageAfterStop)
  /\ stopHandled' = TRUE
  /\ UNCHANGED <<elapsed, timerRef, intervals, appMountPc, importing, nCalls,
                 recorder, recordings>>

\* handleToggleRecording: catch of stopRecording()
StopRejected ==
  /\ Answered("stop_recording", "err")
  /\ recordingState' = "Idle"
  /\ stopHandled' = TRUE
  /\ PageKept
  /\ UNCHANGED <<elapsed, timerRef, intervals, appMountPc, importing, nCalls,
                 recorder, recordings>>

\* onPause after await pauseRecording()
PauseResolved ==
  /\ Answered("pause_recording", "ok")
  /\ recordingState' = "Paused"
  /\ ClearInterval
  /\ PageKept
  /\ UNCHANGED <<elapsed, appMountPc, importing, nCalls, recorder, recordings,
                 stopHandled>>

\* onPause after await resumeRecording()
ResumeResolved ==
  /\ Answered("resume_recording", "ok")
  /\ recordingState' = "Recording"
  /\ SetInterval
  /\ PageKept
  /\ UNCHANGED <<elapsed, appMountPc, importing, nCalls, recorder, recordings,
                 stopHandled>>

\* a rejected startRecording is logged; a rejected pauseRecording or
\* resumeRecording is an unhandled rejection: no signal changes
Rejected ==
  /\ calls # <<>>
  /\ Head(calls).status = "err"
  /\ Head(calls).cmd \in {"start_recording", "pause_recording", "resume_recording"}
  /\ calls' = Tail(calls)
  /\ PageKept
  /\ UNCHANGED <<recordingState, elapsed, timerRef, intervals, appMountPc, importing,
                 nCalls, recorder, recordings, stopHandled>>

\* the interval callback: setElapsed((e) => e + 1)
TimerTick ==
  /\ intervals > 0
  /\ elapsed < MaxElapsed
  /\ elapsed' = elapsed + 1
  /\ PageKept
  /\ UNCHANGED <<recordingState, timerRef, intervals, appMountPc, importing, calls,
                 nCalls, recorder, recordings, stopHandled>>

\* RecordingList onOpenSettings, and the tray-open-settings listener
OpenSettings ==
  /\ page = "list" \/ appMountPc \in {"listenShortcut", "mounted"}
  /\ SetPage("settings")
  /\ UNCHANGED currentRecordingId

\* Settings onClose
CloseSettings ==
  /\ page = "settings"
  /\ SetPage("list")
  /\ UNCHANGED currentRecordingId

(***************************************************************************)
(* Preview.tsx and ZoomTrack.tsx: editing the zoom segments.               *)
(* compute_activity_center runs behind invoke(); its answers arrive in the *)
(* order the calls were made, except in SpecResize, where any pending call *)
(* may settle next.                                                        *)
(***************************************************************************)
MaxEditorSegments == 3
MaxPending == 2
MaxEditorId == 3
MaxEvents == 9

MIN_SEGMENT_MS == 100
MERGE_GAP_MS == 500
DEFAULT_ZOOM == 2 * FP

ClickTimes == {0, 2600, 2900, 5950}
DragTimes == {0, 6000}

NoSegment == 0

\* the answer of compute_activity_center for the range [startMs, endMs]: the
\* activity of a range lies where the pointer was at its middle
ActivityCenter(startMs, endMs) ==
  [center_x |-> ((startMs + endMs) \div 12) * FP, center_y |-> 250 * FP,
   zoom_level |-> 2 * FP]

MinIn(S) == CHOOSE x \in S : \A y \in S : x <= y

MaxIn(S) == CHOOSE x \in S : \A y \in S : x >= y

\* [...segments].sort((a, b) => a.startMs - b.startMs)
SortedSegments(segs) == SortByField(segs, "startMs")

\* segs.find(s => s.id === id), as an index; 0 when there is none
FindSegment(segs, id) ==
  LET I == {i \in DOMAIN segs : segs[i].id = id}
  IN  IF I = {} THEN 0 ELSE MinIn(I)

\* prev.map(s => s.id === id ? { ...s, ...updates } : s)
MapSegment(segs, id, F(_)) ==
  [i \in DOMAIN segs |-> IF segs[i].id = id THEN F(segs[i]) ELSE segs[i]]

\* prev.filter(s => !ids.includes(s.id))
RECURSIVE WithoutIds(_, _)
WithoutIds(segs, ids) ==
  IF segs = <<>> THEN <<>>
  ELSE IF Head(segs).id \in ids THEN WithoutIds(Tail(segs), ids)
  ELSE <<Head(segs)>> \o WithoutIds(Tail(segs), ids)

\* ZoomTrack handleTrackClick: the segment the click falls on, as an index
ClickedSeg(segs, atMs) ==
  LET I == {i \in DOMAIN segs : atMs >= segs[i].startMs /\ atMs <= segs[i].endMs}
  IN  IF I = {} THEN 0 ELSE MinIn(I)

\* the time free from atMs to the next segment or the end of the recording
FreeAfter(segs, rec, atMs) ==
  LET Walls == {segs[i].startMs : i \in {j \in DOMAIN segs : segs[j].startMs > atMs}}
  IN  IF Walls = {} THEN rec.duration_ms - atMs ELSE MinIn(Walls) - atMs

\* addSegment's test of the minimal width
TooNarrowForDefault(slotStart, endMs) == endMs - slotStart < DEFAULT_SEGMENT_DURATION_MS

TooNarrow(slotStart, endMs) == endMs - slotStart < MIN_SEGMENT_MS

\* addSegment up to its await: the slot of the new segment, or ok = FALSE
\* where it returns without adding
AddSlot(segs, rec, atMs) ==
  LET trackMs == IF rec # Null THEN rec.duration_ms
                    ELSE atMs + DEFAULT_SEGMENT_DURATION_MS
      sorted == SortedSegments(segs)
      After == {i \in DOMAIN sorted : sorted[i].startMs > atMs}
      Before == {i \in DOMAIN sorted : sorted[i].endMs <= atMs}
      Over == {i \in DOMAIN sorted :
                 sorted[i].startMs <= atMs /\ sorted[i].endMs > atMs}
      slotEnd == IF After # {} THEN sorted[MinIn(After)].startMs ELSE trackMs
      slotStart == IF Over # {} THEN sorted[MinIn(Over)].endMs
                   ELSE IF Before # {} THEN Max(atMs, sorted[MaxIn(Before)].endMs)
                   ELSE atMs
      endMs == Min(slotStart + DEFAULT_SEGMENT_DURATION_MS, slotEnd)
  IN  [ok |-> ~(Over # {} /\ slotStart >= slotEnd) /\ ~TooNarrow(slotStart, endMs),
       startMs |-> slotStart,
       endMs |-> endMs]

\* a call of computeActivityCenter that has not settled, with what its
\* caller holds across the await
PendingOp(op, id1, id2, startMs, endMs, centerX, centerY, zoomLevel) ==
  [op |-> op, id1 |-> id1, id2 |-> id2, startMs |-> startMs, endMs |-> endMs,
   centerX |-> centerX, centerY |-> centerY, zoomLevel |-> zoomLevel]

\* the segments and calls an editing operation starts from are those the
\* operations before it left: none of them is still waiting
StaysSequential == sequential /\ pendingOps = <<>>

\* one more event is handled
EventHandled ==
  /\ nEvents < MaxEvents
  /\ nEvents' = nEvents + 1

EditorInit ==
  /\ selectedSegmentId = NoSegment
  /\ dragState = Null
  /\ contextMenu = Null
  /\ pendingOps = <<>>
  /\ sequential = TRUE
  /\ nEvents = 0

EditorIdle == EditorInit

\* handleTrackClick, addSegment up to its await, and the window's click
\* listener, which closes the context menu
TrackClick(atMs) ==
  /\ dragState = Null
  /\ LET slot == AddSlot(segments, recordingInfo, atMs)
         covered == ClickedSeg(segments, atMs) # 0
         rec == recordingInfo
     IN  IF ~covered /\ slot.ok
           THEN /\ Len(pendingOps) < MaxPending
                /\ nextId + Len(SelectSeq(pendingOps, LAMBDA p : p.op = "add"))
                     <= MaxEditorId
                /\ Len(segments) + Len(SelectSeq(pendingOps, LAMBDA p : p.op = "add"))
                     < MaxEditorSegments
                /\ pendingOps' = Append(pendingOps,
                     PendingOp("add", NoSegment, NoSegment, slot.startMs, slot.endMs,
                               rec.screen_width \div 2, rec.screen_height \div 2,
                               DEFAULT_ZOOM))
                /\ sequential' = StaysSequential
           ELSE UNCHANGED <<pendingOps, sequential>>
  /\ contextMenu' = Null
  /\ UNCHANGED <<segments, nextId, selectedSegmentId, dragState>>

\* handleSegmentClick: the click selects the segment and goes no further
SegmentClick(id) ==
  /\ dragState = Null
  /\ FindSegment(segments, id) # 0
  /\ selectedSegmentId' = id
  /\ UNCHANGED <<segments, nextId, dragState, contextMenu, pendingOps, sequential>>

\* segments().findIndex(s => s.id === id), counted from 0; -1 when there is none
SelectedSegmentIndex(segs, id) ==
  IF id = NoSegment THEN 0 - 1 ELSE FindSegment(segs, id) - 1

\* SegmentEditor: the previous and next buttons; navigateSegment
NavigateSegment(dir) ==
  /\ dragState = Null
  /\ SelectedSegmentIndex(segments, selectedSegmentId) >= 0
  /\ LET newIdx == SelectedSegmentIndex(segments, selectedSegmentId) + dir
     IN  /\ newIdx >= 0 /\ newIdx < Len(segments)
         /\ selectedSegmentId' = segments[newIdx + 1].id
  /\ UNCHANGED <<segments, nextId, dragState, contextMenu, pendingOps, sequential>>

\* SegmentEditor: the ends of the zoom slider, min="1.2" and max="5.0"
SliderMin == (12 * FP) \div 10

SliderMax == 5 * FP

\* SegmentEditor: the zoom slider's onInput; updateSegment
SliderEdit(zoom) ==
  /\ dragState = Null
  /\ SelectedSegmentIndex(segments, selectedSegmentId) >= 0
  /\ LET Zoomed(s) == [s EXCEPT !.zoomLevel = zoom]
     IN  segments' = MapSegment(segments, selectedSegmentId, Zoomed)
  /\ sequential' = StaysSequential
  /\ UNCHANGED <<nextId, selectedSegmentId, dragState, contextMenu, pendingOps>>

\* startDrag: handleDragStart
DragStart(id, edge) ==
  /\ dragState = Null
  /\ FindSegment(segments, id) # 0
  /\ dragState' = [segmentId |-> id, edge |-> edge]
  /\ UNCHANGED <<segments, nextId, selectedSegmentId, contextMenu, pendingOps,
                 sequential>>

\* handleMouseMove: the new value of the dragged edge
DraggedEdge(segs, ds, trackMs, pointerMs) ==
  LET atMs == Max(0, Min(trackMs, pointerMs))
      seg == segs[FindSegment(segs, ds.segmentId)]
      sorted == SortedSegments(segs)
      idx == FindSegment(sorted, ds.segmentId)
      prevEnd == IF idx > 1 THEN sorted[idx - 1].endMs ELSE 0
      nextStart == IF idx < Len(sorted) THEN sorted[idx + 1].startMs ELSE trackMs
  IN  IF ds.edge = "start"
        THEN Max(prevEnd, Min(atMs, seg.endMs - MIN_SEGMENT_MS))
        ELSE Min(nextStart, Max(atMs, seg.startMs + MIN_SEGMENT_MS))

\* handleMouseMove and updateSegment
MouseMove(pointerMs) ==
  /\ dragState # Null
  /\ IF FindSegment(segments, dragState.segmentId) = 0
       THEN UNCHANGED <<segments, sequential>>
       ELSE LET edge == DraggedEdge(segments, dragState, recordingInfo.duration_ms,
                                    pointerMs)
                Moved(s) == IF dragState.edge = "start"
                              THEN [s EXCEPT !.startMs = edge]
                              ELSE [s EXCEPT !.endMs = edge]
            IN  /\ segments' = MapSegment(segments, dragState.segmentId, Moved)
                /\ sequential' = StaysSequential
  /\ UNCHANGED <<nextId, selectedSegmentId, dragState, contextMenu, pendingOps>>

\* startDrag: onUp, and handleSegmentResizeEnd up to its await
MouseUp ==
  /\ dragState # Null
  /\ dragState' = Null
  /\ LET i == FindSegment(segments, dragState.segmentId)
     IN  IF i = 0
           THEN UNCHANGED pendingOps
           ELSE /\ Len(pendingOps) < MaxPending
                /\ pendingOps' = Append(pendingOps,
                     PendingOp("resize", dragState.segmentId, NoSegment,
                               segments[i].startMs, segments[i].endMs, 0, 0, 0))
  /\ UNCHANGED <<segments, nextId, selectedSegmentId, contextMenu, sequential>>

\* handleContextMenu: the pair of neighbours offered for merging
MergePair(segs, segmentId) ==
  LET sorted == SortedSegments(segs)
      idx == FindSegment(sorted, segmentId)
  IN  IF idx > 1 /\ sorted[idx].startMs - sorted[idx - 1].endMs < MERGE_GAP_MS
        THEN <<sorted[idx - 1].id, sorted[idx].id>>
      ELSE IF idx < Len(sorted)
              /\ sorted[idx + 1].startMs - sorted[idx].endMs < MERGE_GAP_MS
        THEN <<sorted[idx].id, sorted[idx + 1].id>>
      ELSE <<>>

\* handleContextMenu; the pointer that drags an edge clicks nothing else
OpenContextMenu(id) ==
  /\ dragState = Null
  /\ FindSegment(segments, id) # 0
  /\ contextMenu' = [segmentId |-> id, mergePair |-> MergePair(segments, id)]
  /\ UNCHANGED <<segments, nextId, selectedSegmentId, dragState, pendingOps,
                 sequential>>

\* deleteSegment
DeleteSegment(id) ==
  /\ segments' = WithoutIds(segments, {id})
  /\ selectedSegmentId' = IF selectedSegmentId = id THEN NoSegment ELSE selectedSegmentId
  /\ sequential' = StaysSequential

\* context menu: delete
MenuDelete ==
  /\ dragState = Null
  /\ contextMenu # Null
  /\ DeleteSegment(contextMenu.segmentId)
  /\ contextMenu' = Null
  /\ UNCHANGED <<nextId, dragState, pendingOps>>

\* SegmentEditor: onDelete
EditorDelete ==
  /\ dragState = Null
  /\ selectedSegmentId # NoSegment
  /\ FindSegment(segments, selectedSegmentId) # 0
  /\ DeleteSegment(selectedSegmentId)
  /\ UNCHANGED <<nextId, dragState, contextMenu, pendingOps>>

\* context menu: merge; mergeSegments up to its await
MenuMerge ==
  /\ dragState = Null
  /\ contextMenu # Null
  /\ contextMenu.mergePair # <<>>
  /\ contextMenu' = Null
  /\ LET i1 == FindSegment(segments, contextMenu.mergePair[1])
         i2 == FindSegment(segments, contextMenu.mergePair[2])
     IN  IF i1 = 0 \/ i2 = 0
           THEN UNCHANGED <<pendingOps, sequential>>
           ELSE LET s1 == segments[i1]
                    s2 == segments[i2]
                IN  /\ Len(pendingOps) < MaxPending
                    /\ pendingOps' = Append(pendingOps,
                         PendingOp("merge", s1.id, s2.id,
                                   Min(s1.startMs, s2.startMs), Max(s1.endMs, s2.endMs),
                                   (s1.centerX + s2.centerX) \div 2,
                                   (s1.centerY + s2.centerY) \div 2,
                                   Min(s1.zoomLevel, s2.zoomLevel)))
                    /\ sequential' = StaysSequential
  /\ UNCHANGED <<segments, nextId, selectedSegmentId, dragState>>

\* addSegment after its await
AddSettled(p, resolved) ==
  LET result == ActivityCenter(p.startMs, p.endMs)
      newSeg == [id |-> nextId, startMs |-> p.startMs, endMs |-> p.endMs,
                 zoomLevel |-> IF resolved /\ result.zoom_level > ZOOM_THRESHOLD
                                 THEN result.zoom_level ELSE p.zoomLevel,
                 centerX |-> IF resolved THEN result.center_x ELSE p.centerX,
                 centerY |-> IF resolved THEN result.center_y ELSE p.centerY]
  IN  /\ segments' = SortedSegments(Append(segments, newSeg))
      /\ nextId' = nextId + 1
      /\ selectedSegmentId' = newSeg.id

\* mergeSegments after its await
MergeSettled(p, resolved) ==
  LET result == ActivityCenter(p.startMs, p.endMs)
      merged == [id |-> p.id1, startMs |-> p.startMs, endMs |-> p.endMs,
                 zoomLevel |-> IF resolved THEN Max(result.zoom_level, FP)
                               ELSE p.zoomLevel,
                 centerX |-> IF resolved THEN result.center_x ELSE p.centerX,
                 centerY |-> IF resolved THEN result.center_y ELSE p.centerY]
  IN  /\ segments' = SortedSegments(
                       Append(WithoutIds(segments, {p.id1, p.id2}), merged))
      /\ UNCHANGED <<nextId, selectedSegmentId>>

\* handleSegmentResizeEnd after its await
ResizeSettled(p, resolved) ==
  LET result == ActivityCenter(p.startMs, p.endMs)
      Recentred(s) == [s EXCEPT !.centerX = result.center_x,
                                !.centerY = result.center_y,
                                !.zoomLevel = Max(result.zoom_level, FP)]
  IN  /\ segments' = IF resolved THEN MapSegment(segments, p.id1, Recentred)
                     ELSE segments
      /\ UNCHANGED <<nextId, selectedSegmentId>>

\* sequence s without its k-th element
RemoveAt(s, k) == SubSeq(s, 1, k - 1) \o SubSeq(s, k + 1, Len(s))

\* the k-th pending call of computeActivityCenter settles
ActivityCenterSettledAt(k, resolved) ==
  /\ k \in DOMAIN pendingOps
  /\ LET p == pendingOps[k]
     IN  CASE p.op = "add" -> AddSettled(p, resolved)
           [] p.op = "merge" -> MergeSettled(p, resolved)
           [] OTHER -> ResizeSettled(p, resolved)
  /\ pendingOps' = RemoveAt(pendingOps, k)
  /\ UNCHANGED <<dragState, contextMenu, sequential>>

\* the oldest call of computeActivityCenter settles
ActivityCenterSettled(resolved) == ActivityCenterSettledAt(1, resolved)

(***************************************************************************)
(* Specifications                                                          *)
(***************************************************************************)
InitViewport ==
  /\ ViewportInit
  /\ SpringIdle
  /\ SegmentsIdle
  /\ PlayerIdle
  /\ ExportIdle
  /\ AppIdle
  /\ EditorIdle

NextViewport ==
  \/ \E t \in QueryTimes : ComputeViewportAt(t) /\ UNCHANGED exceptViewport
  \/ LoopReturn /\ UNCHANGED exceptViewport
  \/ LoopApply /\ UNCHANGED exceptViewport
  \/ LoopExit /\ UNCHANGED exceptViewport

SpecViewport == InitViewport /\ [][NextViewport]_vars

InitSpring ==
  /\ SpringInit
  /\ ViewportIdle
  /\ SegmentsIdle
  /\ PlayerIdle
  /\ ExportIdle
  /\ AppIdle
  /\ EditorIdle

NextSpring ==
  \/ \E value \in SpringPositions : SetTarget(value) /\ UNCHANGED exceptSpring
  \/ \E halfLife \in HalfLives, dt \in Dts : Update(halfLife, dt) /\ UNCHANGED exceptSpring

SpecSpring == InitSpring /\ [][NextSpring]_vars

InitSegments ==
  /\ SegmentsInit
  /\ ViewportIdle
  /\ SpringIdle
  /\ PlayerIdle
  /\ ExportIdle
  /\ AppIdle
  /\ EditorIdle

NextSegments ==
  \/ \E size \in ScreenSizes :
       CallSegmentsToKeyframes(size[1] * FP, size[2] * FP)
         /\ UNCHANGED exceptSegments
  \/ \E segs \in SegmentLists : ChangeSegments(segs) /\ UNCHANGED exceptSegments

SpecSegments == InitSegments /\ [][NextSegments]_vars

InitPlayer ==
  /\ PlayerInit
  /\ ViewportIdle
  /\ SpringIdle
  /\ SegmentsIdle
  /\ ExportIdle
  /\ AppIdle
  /\ EditorIdle

NextPlayer ==
  \/ \E delta \in FrameDeltas : AnimationFrame(delta) /\ UNCHANGED exceptPlayer
  \/ TogglePlay /\ UNCHANGED exceptPlayer
  \/ \E pct \in SeekPercents : OnSeekStart(pct) /\ UNCHANGED exceptPlayer
  \/ \E pct \in SeekPercents : OnMove(pct) /\ UNCHANGED exceptPlayer
  \/ OnUp /\ UNCHANGED exceptPlayer
  \/ \E delta \in {0 - 1, 1} : StepFrame(delta) /\ UNCHANGED exceptPlayer
  \/ \E seekMs \in SeekTimes : SeekFromPage(seekMs) /\ UNCHANGED exceptPlayer

SpecPlayer == InitPlayer /\ [][NextPlayer]_vars

InitExport ==
  /\ ExportInit
  /\ ViewportIdle
  /\ SpringIdle
  /\ SegmentsIdle
  /\ PlayerIdle
  /\ AppIdle
  /\ EditorIdle

NextExport ==
  \/ \E id \in RecordingIds : OpenPreview(id) /\ UNCHANGED exceptExport
  \/ \E found \in BOOLEAN : GetRecordingsListDone(found) /\ UNCHANGED exceptExport
  \/ \E ok \in BOOLEAN, kfs \in BackendKeyframeLists :
       GetZoomKeyframesDone(ok, kfs) /\ UNCHANGED exceptExport
  \/ ListenDone /\ UNCHANGED exceptExport
  \/ \E format \in ExportFormats : HandleExport(format) /\ UNCHANGED exceptExport
  \/ ClosePreview /\ UNCHANGED exceptExport
  \/ \E j \in DOMAIN jobs : JobProgress(j) /\ UNCHANGED exceptExport
  \/ \E j \in DOMAIN jobs, outcome \in JobOutcomes :
       JobEnd(j, outcome) /\ UNCHANGED exceptExport
  \/ Deliver /\ UNCHANGED exceptExport

SpecExport == InitExport /\ [][NextExport]_vars

InitApp ==
  /\ AppInit
  /\ ExportInit
  /\ ViewportIdle
  /\ SpringIdle
  /\ SegmentsIdle
  /\ PlayerIdle
  /\ EditorIdle

NextApp ==
  \/ HandleToggleRecording /\ UNCHANGED exceptApp
  \/ OnPause /\ UNCHANGED exceptApp
  \/ OnPauseImported /\ UNCHANGED exceptApp
  \/ \E ok \in BOOLEAN : RecorderAnswers(ok) /\ UNCHANGED exceptApp
  \/ GetRecordingStateResolved /\ UNCHANGED exceptApp
  \/ AppListenDone /\ UNCHANGED exceptApp
  \/ StartResolved /\ UNCHANGED exceptApp
  \/ StopResolved /\ UNCHANGED exceptApp
  \/ StopRejected /\ UNCHANGED exceptApp
  \/ PauseResolved /\ UNCHANGED exceptApp
  \/ ResumeResolved /\ UNCHANGED exceptApp
  \/ Rejected /\ UNCHANGED exceptApp
  \/ TimerTick /\ UNCHANGED exceptApp
  \/ OpenSettings /\ UNCHANGED <<exceptApp, appVars>>
  \/ CloseSettings /\ UNCHANGED <<exceptApp, appVars>>
  \/ \E id \in RecordingIds : OpenPreview(id) /\ UNCHANGED exceptExport
  \/ ClosePreview /\ UNCHANGED exceptExport

SpecApp == InitApp /\ [][NextApp]_vars

\* the preview page of a recording, mounted, with the segments made of the
\* recording's keyframes
InitEditor ==
  /\ \E kfs \in BackendKeyframeLists :
       LET made == keyframesToSegments(kfs, 1)
       IN  segments = made.segments /\ nextId = made.nextId
  /\ kfsOut = <<>>
  /\ page = "preview"
  /\ currentRecordingId = RecordingId(0)
  /\ mountPc = "mounted"
  /\ exporting = FALSE
  /\ exportedPath = NullString
  /\ error = NullString
  /\ recordingInfo = RecordingInfo
  /\ exportProgress = Null
  /\ unlistenProgress = TRUE
  /\ unlistenComplete = TRUE
  /\ unlistenError = TRUE
  /\ jobs = <<>>
  /\ channel = <<>>
  /\ EditorInit
  /\ ViewportIdle
  /\ SpringIdle
  /\ PlayerIdle
  /\ AppIdle

NextEditor ==
  \/ \E atMs \in ClickTimes : TrackClick(atMs) /\ EventHandled /\ UNCHANGED exceptEditor
  \/ \E id \in 1..MaxEditorId, edge \in {"start", "end"} :
       DragStart(id, edge) /\ EventHandled /\ UNCHANGED exceptEditor
  \/ \E pointerMs \in DragTimes : MouseMove(pointerMs) /\ EventHandled /\ UNCHANGED exceptEditor
  \/ MouseUp /\ EventHandled /\ UNCHANGED exceptEditor
  \/ \E id \in 1..MaxEditorId : OpenContextMenu(id) /\ EventHandled /\ UNCHANGED exceptEditor
  \/ MenuDelete /\ EventHandled /\ UNCHANGED exceptEditor
  \/ EditorDelete /\ EventHandled /\ UNCHANGED exceptEditor
  \/ MenuMerge /\ EventHandled /\ UNCHANGED exceptEditor
  \/ \E id \in 1..MaxEditorId : SegmentClick(id) /\ EventHandled /\ UNCHANGED exceptEditor
  \/ \E dir \in {0 - 1, 1} : NavigateSegment(dir) /\ EventHandled /\ UNCHANGED exceptEditor
  \/ \E resolved \in BOOLEAN : ActivityCenterSettled(resolved) /\ EventHandled /\ UNCHANGED exceptEditor

SpecEditor == InitEditor /\ [][NextEditor]_vars

\* events handled in a run that starts while the keyframes are being loaded
MaxLoadEvents == 6

\* the preview page of a recording whose onMount has set recordingInfo and
\* awaits getZoomKeyframes: the timeline can be opened and used
InitLoad ==
  /\ segments = <<>>
  /\ nextId = 1
  /\ kfsOut = <<>>
  /\ page = "preview"
  /\ currentRecordingId = RecordingId(0)
  /\ mountPc = "getZoomKeyframes"
  /\ exporting = FALSE
  /\ exportedPath = NullString
  /\ error = NullString
  /\ recordingInfo = RecordingInfo
  /\ exportProgress = Null
  /\ unlistenProgress = FALSE
  /\ unlistenComplete = FALSE
  /\ unlistenError = FALSE
  /\ jobs = <<>>
  /\ channel = <<>>
  /\ EditorInit
  /\ ViewportIdle
  /\ SpringIdle
  /\ PlayerIdle
  /\ AppIdle

NextLoad ==
  \/ nEvents < MaxLoadEvents /\ NextEditor
  \/ \E ok \in BOOLEAN, kfs \in BackendKeyframeLists :
       GetZoomKeyframesDone(ok, kfs) /\ UNCHANGED exceptExport
  \/ ListenDone /\ UNCHANGED exceptExport

SpecLoad == InitLoad /\ [][NextLoad]_vars

\* resizing the segments of a mounted preview; the answers of
\* computeActivityCenter arrive in any order
NextResize ==
  \/ \E id \in 1..MaxEditorId, edge \in {"start", "end"} :
       DragStart(id, edge) /\ EventHandled /\ UNCHANGED exceptEditor
  \/ \E pointerMs \in DragTimes : MouseMove(pointerMs) /\ EventHandled /\ UNCHANGED exceptEditor
  \/ MouseUp /\ EventHandled /\ UNCHANGED exceptEditor
  \/ \E k \in 1..MaxPending, resolved \in BOOLEAN :
       ActivityCenterSettledAt(k, resolved) /\ EventHandled /\ UNCHANGED exceptEditor

SpecResize == InitEditor /\ [][NextResize]_vars

\* events handled in a run that also moves the zoom slider
MaxZoomEvents == 6

\* the editor's operations and the zoom slider of the selected segment
NextZoom ==
  \/ nEvents < MaxZoomEvents /\ NextEditor
  \/ \E zoom \in {SliderMin, DEFAULT_ZOOM, SliderMax} :
       /\ nEvents < MaxZoomEvents
       /\ SliderEdit(zoom) /\ EventHandled /\ UNCHANGED exceptEditor

SpecZoom == InitEditor /\ [][NextZoom]_vars

(***************************************************************************)
(* Properties of computeViewportAt                                         *)
(***************************************************************************)
RECURSIVE SumDt(_)
SumDt(us) == IF us = <<>> THEN 0 ELSE us[1].dt + SumDt(Tail(us))

\* indices of the keyframes whose time is at or before the query time
Due == {i \in 1..Len(keyframes) : keyframes[i].time_ms <= timeMs}

\* C1: every viewport computeViewportAt returns lies within
\* [0, screenWidth] x [0, screenHeight] and has positive width and height.
C1_ViewportWithinScreen ==
  viewport # Null =>
    /\ 0 <= viewport.x
    /\ viewport.x + viewport.width <= screenWidth
    /\ 0 <= viewport.y
    /\ viewport.y + viewport.height <= screenHeight
    /\ viewport.width > 0
    /\ viewport.height > 0

\* a zoomed-in viewport was returned whose unclamped corner lies off screen
C1_Witness ==
  /\ viewport # Null
  /\ viewport.zoom > FP
  /\ cx.position - viewport.width \div 2 < 0
  /\ viewport.x = 0

\* C2: keyframes are applied in list order, none twice, and when the call
\* returns the applied ones are exactly those with time_ms <= timeMs.
C2_AppliedExactlyDue ==
  /\ \A i, j \in DOMAIN applied : i < j => applied[i] < applied[j]
  /\ vpPc = "done" => {applied[i] : i \in DOMAIN applied} = Due

\* a call returned having applied a keyframe at exactly timeMs and skipped a later one
C2_Witness ==
  /\ vpPc = "done"
  /\ Len(applied) >= 1
  /\ Len(applied) < Len(keyframes)
  /\ keyframes[applied[Len(applied)]].time_ms = timeMs

\* C7: a call returns the viewport that the first call with the same
\* keyframes, time and screen size returned, whatever was queried in between.
C7_HistoryIndependent ==
  (vpPc = "done" /\ memo # Null /\ memo.timeMs = timeMs) => viewport = memo.viewport

\* the first query was repeated after a query for an earlier time, in the
\* middle of a transition
C7_Witness ==
  /\ vpPc = "done"
  /\ memo # Null
  /\ memo.timeMs = timeMs
  /\ lastTimeMs >= 0
  /\ lastTimeMs < timeMs
  /\ viewport.zoom > FP

\* C8: every update of a call has dt >= 0, the dt applied so far add up to
\* prevMs, and on return they add up to timeMs - 0.
C8_ForwardOnly ==
  /\ \A i \in DOMAIN updates : updates[i].dt >= 0
  /\ vpPc = "loop" => SumDt(updates) = prevMs
  /\ vpPc = "done" => SumDt(updates) = timeMs - 0

\* a call returned after several updates
C8_Witness ==
  /\ vpPc = "done"
  /\ Len(updates) >= 2
  /\ Len(applied) >= 2

\* C11: the updates that follow a keyframe with a spring_hint use the hint's
\* zoom_half_life for the zoom spring and its pan_half_life for cx and cy.
C11_HintHalfLivesUsed ==
  \A i \in DOMAIN updates :
    LET k == updates[i].after
    IN  (k # 0 /\ keyframes[k].spring_hint # Null) =>
          /\ updates[i].zoomHL = keyframes[k].spring_hint.zoom_half_life
          /\ updates[i].panHL = keyframes[k].spring_hint.pan_half_life

\* a call returned after an update that followed a hinted keyframe, the
\* keyframe before it having no hint
C11_Witness ==
  /\ vpPc = "done"
  /\ \E i \in DOMAIN updates :
       /\ updates[i].after = 2
       /\ keyframes[2].spring_hint # Null
       /\ keyframes[1].spring_hint = Null
       /\ updates[i].dt > 0

\* C13: with an empty keyframe list every call returns the identity viewport:
\* x = 0, y = 0, width = screenWidth, height = screenHeight, zoom = 1.0.
C13_EmptyListIdentity ==
  (vpPc = "done" /\ keyframes = <<>>) =>
    /\ viewport.x = 0
    /\ viewport.y = 0
    /\ viewport.width = screenWidth
    /\ viewport.height = screenHeight
    /\ viewport.zoom = FP

\* a call for a time after 0 returned for an empty list, following a call
\* for another time
C13_Witness ==
  /\ vpPc = "done"
  /\ keyframes = <<>>
  /\ timeMs > 0
  /\ Len(updates) = 1
  /\ lastTimeMs >= 0
  /\ lastTimeMs # timeMs

\* an unhinted SpringIn keyframe that lowers the zoom is followed by an
\* update with the zoom-out half-life
SpringInWithZoomOutHL ==
  \E i \in DOMAIN updates :
    /\ updates[i].after # 0
    /\ keyframes[updates[i].after].spring_hint = Null
    /\ keyframes[updates[i].after].transition = "SpringIn"
    /\ updates[i].zoomHL = DefaultZoomOutHL

\* C12: the updates that follow a keyframe without a spring_hint use the
\* zoom half-life of the keyframe's transition kind: the zoom-out entry
\* after SpringOut, the zoom-in entry after SpringIn.
C12_HalfLifeByTransition ==
  \A i \in DOMAIN updates :
    LET k == updates[i].after
    IN  (k # 0 /\ keyframes[k].spring_hint = Null) =>
          /\ keyframes[k].transition = "SpringOut" => updates[i].zoomHL = DefaultZoomOutHL
          /\ keyframes[k].transition = "SpringIn" => updates[i].zoomHL = DefaultZoomInHL

(***************************************************************************)
(* Properties of Spring.update                                             *)
(***************************************************************************)
\* C9: an update call with dt < 0 is rejected: it throws.
C9_NegativeDtRejected ==
  (lastUpdate # Null /\ lastUpdate.dt < 0) => threw

\* C10: an update call with a half-life below EPSILON (zero, negative or
\* positive) throws nothing and leaves the spring as the same call with
\* half-life EPSILON leaves it.
C10_InvalidHalfLifeIsEpsilon ==
  (lastUpdate # Null /\ lastUpdate.halfLife < EPSILON) =>
    /\ ~threw
    /\ spring = SpringUpdate(lastUpdate.before, EPSILON, lastUpdate.dt)

\* a spring away from its target was updated with an invalid half-life
C10_Witness ==
  /\ lastUpdate # Null
  /\ lastUpdate.halfLife < EPSILON
  /\ lastUpdate.dt > 0
  /\ lastUpdate.before.position # lastUpdate.before.target
  /\ spring # lastUpdate.before

(***************************************************************************)
(* Properties of segmentsToKeyframes                                       *)
(***************************************************************************)
\* C4: the keyframe list segmentsToKeyframes returns has non-decreasing
\* timestamps.
C4_KeyframesTimeSorted == TimeSorted(kfsOut)

\* keyframes were returned for segments whose keyframes were pushed out of
\* time order (one segment starts before the previous one ends)
C4_Witness ==
  /\ kfsOut # <<>>
  /\ ~TimeSorted(PushSegments(SortByField(segments, "startMs"), FP, FP))

\* C5: when the segment list is not empty, the first keyframe returned has
\* time 0.
C5_FirstKeyframeAtZero ==
  (segments # <<>> /\ kfsOut # <<>>) => kfsOut[1].time_ms = 0

\* keyframes were returned for segments none of which starts at 0
C5_Witness ==
  /\ segments # <<>>
  /\ kfsOut # <<>>
  /\ \A i \in DOMAIN segments : segments[i].startMs > 0
  /\ Len(kfsOut) = 2 * Len(segments) + 1

(***************************************************************************)
(* Properties of VideoPlayer                                               *)
(***************************************************************************)
\* the <img> that requests framePath(currentFrame()) is rendered
FrameRequested == frameCount > 0

\* C6: the current frame number always lies within 1..frame_count.
C6_FrameWithinCount == currentFrame \in 1..frameCount

\* C14: for frame_count > 0 the time reported for the frame with index
\* i = currentFrame - 1 is i * duration_ms / frame_count.
C14_FrameTimeFromDuration ==
  (frameCount > 0 /\ currentFrame # NaN) =>
    currentTimeMs.num * frameCount
      = (currentFrame - 1) * durationMs * currentTimeMs.den

\* playback reached the last frame of a recording whose frame time
\* (100 / 3 ms) is not that of the nominal fps
C14_Witness ==
  /\ frameCount = 3
  /\ durationMs = 100
  /\ currentFrame = 3
  /\ now > 0
  /\ ~playing
  /\ currentTimeMs = [num |-> 200, den |-> 3]

\* what does hold: with frames and a positive duration the current frame
\* lies within 1..frame_count
TimedFrameWithinCount ==
  (FrameRequested /\ durationMs > 0) => currentFrame \in 1..frameCount

\* a frame file is requested for a frame number that is not a number
NaNFrameRequested == FrameRequested /\ currentFrame = NaN

\* the current frame is 0
ZeroFrame == currentFrame = 0

(***************************************************************************)
(* Properties of the export flow                                           *)
(***************************************************************************)
\* C15: every export progress the preview holds has a stage among
\* composing, encoding and complete, and a progress within [0, 1] (held in
\* hundredths).
C15_ProgressWellFormed ==
  exportProgress # Null =>
    /\ exportProgress.stage \in {"composing", "encoding", "complete"}
    /\ exportProgress.progress \in 0..100

\* C3: in every state of the preview, error # null implies
\* exportedPath = null.
C3_NoPathWithError == error # NullString => exportedPath = NullString

(***************************************************************************)
(* Properties of App.tsx                                                   *)
(***************************************************************************)
\* the page handles the answer of a stopRecording() that succeeded
StopSucceeded ==
  /\ calls # <<>>
  /\ Head(calls).cmd = "stop_recording"
  /\ Head(calls).status = "ok"
  /\ calls' = Tail(calls)

\* C16: when the stop of a recording succeeds, the app is on the preview
\* page and currentRecordingId is the id stopRecording returned.
C16_PreviewOfStoppedRecording ==
  [][StopSucceeded =>
       /\ page' = "preview"
       /\ currentRecordingId' = Head(calls).result]_vars

\* a stop has been handled and the preview page is open for the recording
\* made last
C16_Witness ==
  /\ stopHandled
  /\ recordings > 0
  /\ page = "preview"
  /\ currentRecordingId = RecordingId(recordings)
  /\ recordingState = "Idle"

\* C20: once a stop request has been handled, the recording state is Idle
\* until the next start is requested.
C20_IdleAfterStop ==
  stopHandled => recordingState = "Idle"

\* a step in which startRecording() is invoked
StartInvoked ==
  /\ Len(calls') = Len(calls) + 1
  /\ calls'[Len(calls')].cmd = "start_recording"

\* a start request whose answer has not been handled yet
StartPending ==
  \E i \in DOMAIN calls : calls[i].cmd = "start_recording"

\* C21: startRecording is invoked only when no recording is running and no
\* other start request is pending.
C21_StartOnlyWhenStopped ==
  [][StartInvoked => recorder = "Idle" /\ ~StartPending]_vars

\* C22: at most one elapsed-time interval timer is active, and none is
\* active while the recording state is Idle.
C22_OneTimerNoneWhenIdle ==
  /\ intervals <= 1
  /\ recordingState = "Idle" => intervals = 0

(***************************************************************************)
(* Properties of the zoom segment editor                                   *)
(***************************************************************************)
\* for any two distinct segments, one ends at or before the other starts
NonOverlapping ==
  \A i, j \in DOMAIN segments :
    i # j => segments[i].endMs <= segments[j].startMs
             \/ segments[j].endMs <= segments[i].startMs

\* a click at atMs falls on no segment
EmptyAt(atMs) == ClickedSeg(segments, atMs) = 0

\* the answer to the computeActivityCenter call of an addSegment is handled
AddSettles ==
  /\ pendingOps # <<>>
  /\ Head(pendingOps).op = "add"
  /\ pendingOps' = Tail(pendingOps)

\* the click of addSegment got its segment: one more segment, with a new id
\* and the slot computed at the click
SegmentAdded ==
  /\ Len(segments') = Len(segments) + 1
  /\ \E i \in DOMAIN segments' :
       /\ segments'[i].id = nextId
       /\ segments'[i].startMs = Head(pendingOps).startMs
       /\ segments'[i].endMs = Head(pendingOps).endMs
       /\ \A j \in DOMAIN segments : segments[j].id # nextId

\* C17 as stated: every click at a time covered by no segment makes
\* addSegment add a segment.
C17_EmptyClickAdds ==
  \A atMs \in ClickTimes :
    EmptyAt(atMs) => AddSlot(segments, recordingInfo, atMs).ok

\* C17 amended: a click at a time covered by no segment, with at least
\* MIN_SEGMENT_MS free up to the next segment or the end of the recording,
\* makes addSegment add a segment that starts at the click, and the segment
\* is in the list once the computeActivityCenter call has settled.
C17_EmptyClickWithRoomAdds ==
  /\ [](\A atMs \in ClickTimes :
          LET slot == AddSlot(segments, recordingInfo, atMs)
              free == FreeAfter(segments, recordingInfo, atMs)
          IN  EmptyAt(atMs) =>
                /\ slot.ok <=> free >= MIN_SEGMENT_MS
                /\ slot.ok => /\ slot.startMs = atMs
                              /\ slot.endMs = atMs + Min(free, DEFAULT_SEGMENT_DURATION_MS))
  /\ [][AddSettles => SegmentAdded]_vars

\* a segment added by a click into the gap between two segments
C17_Witness ==
  /\ Len(segments) = 3
  /\ \E i \in DOMAIN segments :
       /\ segments[i].startMs = 2600
       /\ segments[i].endMs = 2900
       /\ segments[i].id = 3

\* C18: while every add, resize, delete and merge completes before the next
\* one begins, the segments are pairwise non-overlapping.
C18_SequentialNonOverlapping ==
  sequential => NonOverlapping

\* C19: the segments are pairwise non-overlapping also when operations
\* interleave with pending computeActivityCenter calls.
C19_InterleavedNonOverlapping ==
  NonOverlapping


\* C23: selectedSegmentId is null or the id of a segment in the list.
C23_SelectionInList ==
  selectedSegmentId = NoSegment \/ FindSegment(segments, selectedSegmentId) # 0

\* the oldest pending call belongs to a merge and settles in this step
MergeSettles ==
  /\ pendingOps # <<>>
  /\ Head(pendingOps).op = "merge"
  /\ pendingOps' = Tail(pendingOps)

\* one of the two segments of the merge is no longer in the list
MergedSegmentGone ==
  \/ FindSegment(segments, Head(pendingOps).id1) = 0
  \/ FindSegment(segments, Head(pendingOps).id2) = 0

\* C24: a merge whose result is applied when one of its segments no longer
\* exists leaves the segment list as it is.
C24_MergeNeedsBothSegments ==
  [][MergeSettles /\ MergedSegmentGone => segments' = segments]_vars

\* ids of the segments in the list
SegmentIds(segs) == {segs[i].id : i \in DOMAIN segs}

\* the segments that leave the list in this step
Removed == SegmentIds(segments) \ SegmentIds(segments')

\* onMount's setSegments(keyframesToSegments(kfs)) runs in this step
KeyframesLoaded ==
  /\ mountPc = "getZoomKeyframes"
  /\ mountPc' = "listenProgress"

\* the step is deleteSegment(id) of one of the listed segments
LeavesByDelete ==
  \E id \in Removed : segments' = WithoutIds(segments, {id})

\* C25: a segment in the list leaves it only through deleteSegment or
\* mergeSegments, never through the initial keyframe load.
C25_LeavesOnlyByDeleteOrMerge ==
  [][Removed # {} => /\ ~KeyframesLoaded
                     /\ LeavesByDelete \/ MergeSettles]_vars

\* the k-th pending call is the resize of a segment and resolves in this
\* step; after it no resize of that segment is under way or waiting
LastResizeResolved(k) ==
  /\ k \in DOMAIN pendingOps
  /\ pendingOps[k].op = "resize"
  /\ ActivityCenterSettledAt(k, TRUE)
  /\ dragState = Null \/ dragState.segmentId # pendingOps[k].id1
  /\ \A j \in DOMAIN pendingOps' :
       ~(pendingOps'[j].op = "resize" /\ pendingOps'[j].id1 = pendingOps[k].id1)

\* the centre and zoom of the segment are those computed for its range
CentredOnRange(s) ==
  LET result == ActivityCenter(s.startMs, s.endMs)
  IN  /\ s.centerX = result.center_x
      /\ s.centerY = result.center_y
      /\ s.zoomLevel = Max(result.zoom_level, FP)

\* C26: once the last resize of a segment has ended and every reply has
\* arrived, the segment's centre and zoom are those computed for its final
\* range, in whatever order the replies arrived.
C26_FinalRangeCentre ==
  [][\A k \in 1..MaxPending :
       LastResizeResolved(k) =>
         \A i \in DOMAIN segments' :
           segments'[i].id = pendingOps[k].id1 => CentredOnRange(segments'[i])]_vars

\* handleExport starts an export in this step
ExportStarted == Len(jobs') = Len(jobs) + 1

\* C27: every export started from the preview is given the keyframes derived
\* from the segment list of that moment, also when the list is empty.
C27_ExportUsesEditorKeyframes ==
  [][ExportStarted =>
       /\ jobs'[Len(jobs')].command = "export_with_keyframes"
       /\ jobs'[Len(jobs')].keyframes =
            segmentsToKeyframes(segments, recordingInfo.screen_width,
                                recordingInfo.screen_height)]_vars

\* settings.effects.max_zoom, at its default
max_zoom == 3 * FP

\* C28: every zoom segment's zoomLevel is at least 1.2 and at most the
\* maximum zoom.
C28_ZoomLevelInRange ==
  \A i \in DOMAIN segments :
    /\ segments[i].zoomLevel >= SliderMin
    /\ segments[i].zoomLevel <= max_zoom

====
